---- MODULE Spec2Model ----
(***************************************************************************)
(* Model of the fractal generation core of src/fractals.py: FractalConfig, *)
(* the generator classes (Mandelbrot, Julia, Sierpinski, DragonCurve),     *)
(* their generate() methods, the color mapper get_color, and the callers   *)
(* FractalGUI and main().                                                  *)
(*                                                                         *)
(* Numbers.  Python floats are modelled as binary fixed-point numbers with *)
(* FracBits fractional bits: the real r is the integer r * SCALE.  Sums    *)
(* are exact; a product or a quotient is rounded to the nearest grid point *)
(* (ties to even), as IEEE-754 rounds to the nearest double.  A result     *)
(* that fits the grid is therefore exact, as it is in a double.            *)
(* Colors are computed in exact rational arithmetic and truncated, as      *)
(* int(c * 255) truncates; where the double c * 255 falls just short of an *)
(* integer the source's channel is one lower (fire at 1/3: 84 for 85).     *)
(* The properties below compare rasters with each other and with black,    *)
(* and do not depend on such a channel value.                              *)
(*                                                                         *)
(* Specifications.  Spec: a client that constructs configs and generators, *)
(* calls generate() and writes to the rasters it gets.  SpecSweep: one     *)
(* generator over a swept configuration.  SpecGui: main(), FractalGUI and  *)
(* the command line branch.  SpecConc: two threads inside generate(), step *)
(* by step.  FairSpecEscape: the same for the escape-time generators,      *)
(* under a fair scheduler.  SpecFrame: a client that sets zoom between the *)
(* generate() calls of a generator.  SpecUnit: one call of a helper        *)
(* function.  SpecRecent: the recent-files list of the ConfigManager of    *)
(* src/config_manager.py.                                                  *)
(***************************************************************************)
EXTENDS Integers, Sequences, FiniteSets, TLC

----------------------------------------------------------------------------
(* Bounds of the model *)

MaxW == 2
MaxH == 2
MaxIter == 3
MaxDepth == 1
MaxCalls == 2
MaxWrites == 1

\* The canvas on which the Sierpinski triangle's regions are counted: the
\* triangle spans the canvas less a 50 pixel margin on every side.
CanvasW == 118
CanvasH == 118

\* Vertex coordinates of the triangles and the endpoints of the lines handed to
\* the helper functions range over 0 .. MaxCoord.
MaxCoord == 2

\* The rounds of expansion asked of the dragon sequence range over 0 .. MaxRounds.
MaxRounds == 4

\* File names handed to the ConfigManager range over 1 .. MaxNames, and a
\* ConfigManager is followed through MaxAdds calls.
MaxNames == 6
MaxAdds == 2

\* The client of Spec holds at most two configs and two generators.
ConfigIds == {1, 2}
GenIds == {1, 2}

----------------------------------------------------------------------------
(* Fixed-point arithmetic *)

FracBits == 10
SCALE == 2 ^ FracBits

\* n / d rounded to the nearest integer, ties to even (d > 0).
Round(n, d) ==
    LET q == n \div d
        r == n - q * d
    IN  IF 2 * r < d THEN q
        ELSE IF 2 * r > d THEN q + 1
        ELSE IF q % 2 = 0 THEN q ELSE q + 1

\* float(n) for an int n
Fx(n) == n * SCALE
\* the float literal n/d
Lit(n, d) == Round(n * SCALE, d)
\* a * b on floats
FMul(a, b) == Round(a * b, SCALE)
\* a / b on floats, b # 0 (the caller raises ZeroDivisionError for b = 0)
FDiv(a, b) == IF b > 0 THEN Round(a * SCALE, b) ELSE Round((-a) * SCALE, -b)

\* An escape test that counts a magnitude equal to the radius as escaped:
\* abs(z) < r.
AbsLt(re, im, r) == r > 0 /\ re * re + im * im < r * r

\* abs(z) <= r for the complex z = re + im*j.  On the grid the rounding of
\* abs() cannot change the comparison, so the squares are compared.
AbsLe(re, im, r) == r >= 0 /\ re * re + im * im <= r * r

----------------------------------------------------------------------------
(* FractalConfig *)

Schemes == {"rainbow", "fire", "ocean", "grayscale"}

\* FractalConfig(...): the dataclass constructor stores its arguments as given.
FractalConfig(w, h, n, zoom, cx, cy, scheme, jc, radius) ==
    [width |-> w, height |-> h, max_iterations |-> n, zoom |-> zoom,
     center_x |-> cx, center_y |-> cy, color_scheme |-> scheme,
     julia_c |-> jc, escape_radius |-> radius]

----------------------------------------------------------------------------
(* Color mapper: FractalGenerator.get_color *)

\* A conversion that rounds to the nearest integer and clamps to [0, 255]:
\* max(0, min(255, round(v * 255))).
ChanRounded(q) ==
    LET n == Round(255 * q[1], q[2])
    IN  IF n < 0 THEN 0 ELSE IF n > 255 THEN 255 ELSE n

\* int(v * 255) for the rational v = q[1] / q[2], q[2] > 0: truncation towards 0.
Chan(q) ==
    IF q[1] >= 0 THEN (255 * q[1]) \div q[2] ELSE -((255 * (-q[1])) \div q[2])

\* colorsys.hsv_to_rgb(h, 1.0, 1.0) for h = a / b, b > 0, as rationals.
HsvToRgb(a, b) ==
    LET i == IF a >= 0 THEN (6 * a) \div b ELSE -((6 * (-a)) \div b)
        f == 6 * a - i * b
        p == <<0, 1>>
        q == <<b - f, b>>
        t == <<f, b>>
        v == <<1, 1>>
        k == i % 6
    IN  CASE k = 0 -> <<v, t, p>>
          [] k = 1 -> <<q, v, p>>
          [] k = 2 -> <<p, v, t>>
          [] k = 3 -> <<p, q, v>>
          [] k = 4 -> <<t, p, v>>
          [] OTHER -> <<v, p, q>>

\* A fire palette whose ramps are not shifted back to start at 0: each ramp is
\* 4 * normalized.
FireRgbUnshifted(a, b) ==
    IF 4 * a < b THEN <<(<<0, 1>>), <<0, 1>>, <<0, 1>>>>
    ELSE IF 2 * a < b THEN <<(<<4 * a, b>>), <<0, 1>>, <<0, 1>>>>
    ELSE IF 4 * a < 3 * b THEN <<(<<1, 1>>), <<4 * a, b>>, <<0, 1>>>>
    ELSE <<(<<1, 1>>), <<1, 1>>, <<4 * a, b>>>>

\* The fire palette for normalized = a / b, b > 0.
FireRgb(a, b) ==
    IF 4 * a < b THEN <<(<<0, 1>>), <<0, 1>>, <<0, 1>>>>
    ELSE IF 2 * a < b THEN <<(<<4 * a - b, b>>), <<0, 1>>, <<0, 1>>>>
    ELSE IF 4 * a < 3 * b THEN <<(<<1, 1>>), <<4 * a - 2 * b, b>>, <<0, 1>>>>
    ELSE <<(<<1, 1>>), <<1, 1>>, <<4 * a - 3 * b, b>>>>

\* The rgb triple of the palette branch of get_color for normalized = a / b
\* (b > 0), as rationals; any scheme name other than rainbow, fire and ocean
\* falls to the grayscale default.
PaletteRgb(scheme, a, b) ==
    CASE scheme = "rainbow" -> HsvToRgb(a, b)
      [] scheme = "fire" -> FireRgb(a, b)
      [] scheme = "ocean" -> <<(<<0, 1>>), <<a, 2 * b>>, <<a, b>>>>
      [] OTHER -> <<(<<a, b>>), <<a, b>>, <<a, b>>>>

\* A palette that grows darker with the count: normalized is taken as
\* 1 - iterations / max_iterations.
PaletteInverted(scheme, a, b) ==
    LET rgb == PaletteRgb(scheme, b - a, b)
    IN  <<Chan(rgb[1]), Chan(rgb[2]), Chan(rgb[3])>>

\* The palette branch of get_color: tuple(int(c * 255) for c in rgb).
Palette(scheme, a, b) ==
    LET rgb == PaletteRgb(scheme, a, b)
    IN  <<Chan(rgb[1]), Chan(rgb[2]), Chan(rgb[3])>>

\* get_color without its first two lines: the cap count is coloured by the
\* palette like any other count.
GetColorNoCap(scheme, iterations, max_iterations) ==
    IF max_iterations = 0 THEN <<0, 0, 0>>
    ELSE IF max_iterations > 0 THEN Palette(scheme, iterations, max_iterations)
    ELSE Palette(scheme, -iterations, -max_iterations)

\* get_color normalizing the count after the update that follows it:
\* normalized = (iterations + 1) / max_iterations.
GetColorOffByOne(scheme, iterations, max_iterations) ==
    IF iterations = max_iterations THEN <<0, 0, 0>>
    ELSE IF max_iterations > 0 THEN Palette(scheme, iterations + 1, max_iterations)
    ELSE Palette(scheme, -(iterations + 1), -max_iterations)

\* get_color(iterations, max_iterations) under color scheme `scheme`.
GetColor(scheme, iterations, max_iterations) ==
    IF iterations = max_iterations THEN <<0, 0, 0>>
    ELSE IF max_iterations > 0 THEN Palette(scheme, iterations, max_iterations)
    ELSE Palette(scheme, -iterations, -max_iterations)

----------------------------------------------------------------------------
(* Viewport mapper and escape-time loops: Mandelbrot / Julia generate() *)

\* x_min, x_max, y_min, y_max of the viewport (zoom # 0).
XMin(cfg) == cfg.center_x - FDiv(Fx(2), cfg.zoom)
XMax(cfg) == cfg.center_x + FDiv(Fx(2), cfg.zoom)
YMin(cfg) == cfg.center_y - FDiv(Lit(3, 2), cfg.zoom)
YMax(cfg) == cfg.center_y + FDiv(Lit(3, 2), cfg.zoom)

\* A mapping that runs from x_max down: real = x_max - (x / width) * (x_max - x_min).
PixelRealMirrored(cfg, x) ==
    XMax(cfg) - FMul(FDiv(Fx(x), Fx(cfg.width)), XMax(cfg) - XMin(cfg))

\* real, imag of pixel column x / row y.
PixelReal(cfg, x) ==
    XMin(cfg) + FMul(FDiv(Fx(x), Fx(cfg.width)), XMax(cfg) - XMin(cfg))
PixelImag(cfg, y) ==
    YMin(cfg) + FMul(FDiv(Fx(y), Fx(cfg.height)), YMax(cfg) - YMin(cfg))

\* z * z + c on complex numbers <<re, im>>.
ZStep(z, c) ==
    <<FMul(z[1], z[1]) - FMul(z[2], z[2]) + c[1],
      FMul(z[1], z[2]) + FMul(z[2], z[1]) + c[2]>>

\* The loop condition without the cap: only the escape test ends the loop.
LoopCondNoCap(z, iterations, cfg) == AbsLe(z[1], z[2], cfg.escape_radius)

\* The loop condition with the cap compared by <= : one update too many.
LoopCondInclusive(z, iterations, cfg) ==
    /\ iterations <= cfg.max_iterations
    /\ AbsLe(z[1], z[2], cfg.escape_radius)

\* The while loop's condition.
LoopCond(z, iterations, cfg) ==
    /\ iterations < cfg.max_iterations
    /\ AbsLe(z[1], z[2], cfg.escape_radius)

\* A loop that returns the rounds left under the cap instead of the rounds made.
RECURSIVE EscapeLoopRemaining(_, _, _, _)
EscapeLoopRemaining(z, c, iterations, cfg) ==
    IF LoopCond(z, iterations, cfg)
    THEN EscapeLoopRemaining(ZStep(z, c), c, iterations + 1, cfg)
    ELSE cfg.max_iterations - iterations

\* The while loop, run from (z, iterations) to its exit; the final count.
RECURSIVE EscapeLoop(_, _, _, _)
EscapeLoop(z, c, iterations, cfg) ==
    IF LoopCond(z, iterations, cfg)
    THEN EscapeLoop(ZStep(z, c), c, iterations + 1, cfg)
    ELSE iterations

\* A Mandelbrot loop that starts from z = c instead of z = 0.
MandelbrotCountFromC(cfg, x, y) ==
    EscapeLoop(<<PixelReal(cfg, x), PixelImag(cfg, y)>>,
               <<PixelReal(cfg, x), PixelImag(cfg, y)>>, 0, cfg)

\* iterations of pixel (x, y) in MandelbrotGenerator.generate
MandelbrotCount(cfg, x, y) ==
    EscapeLoop(<<0, 0>>, <<PixelReal(cfg, x), PixelImag(cfg, y)>>, 0, cfg)

\* iterations of pixel (x, y) in JuliaGenerator.generate
JuliaCount(cfg, x, y) ==
    EscapeLoop(<<PixelReal(cfg, x), PixelImag(cfg, y)>>, cfg.julia_c, 0, cfg)


----------------------------------------------------------------------------
(* Rasters *)

Black == <<0, 0, 0>>
White == <<255, 255, 255>>
Red == <<255, 0, 0>>

Min(a, b) == IF a < b THEN a ELSE b
Max(a, b) == IF a > b THEN a ELSE b

\* The pixel positions <<y, x>> of a height x width image (none if either is 0).
Pixels(h, w) == (0 .. h - 1) \X (0 .. w - 1)

\* np.zeros((h, w, 3)) / np.ones((h, w, 3)) * 255: an image filled with `color`.
NewImage(h, w, color) == [h |-> h, w |-> w, px |-> [p \in Pixels(h, w) |-> color]]

----------------------------------------------------------------------------
(* Sierpinski triangle: SierpinskiGenerator *)

Margin == 50

\* sign(p1, p2, p3) of _point_in_triangle; points are <<x, y>>.
Sign(p1, p2, p3) ==
    (p1[1] - p3[1]) * (p2[2] - p3[2]) - (p2[1] - p3[1]) * (p1[2] - p3[2])

\* A point-in-triangle test for one orientation only: no sign is negative.
PointInTriangleOneWay(x, y, p1, p2, p3) ==
    LET d1 == Sign(<<x, y>>, p1, p2)
        d2 == Sign(<<x, y>>, p2, p3)
        d3 == Sign(<<x, y>>, p3, p1)
    IN  ~((d1 < 0) \/ (d2 < 0) \/ (d3 < 0))

\* A point-in-triangle test that leaves the boundary out: the three signs are
\* all positive or all negative.
PointStrictlyInTriangle(x, y, p1, p2, p3) ==
    LET d1 == Sign(<<x, y>>, p1, p2)
        d2 == Sign(<<x, y>>, p2, p3)
        d3 == Sign(<<x, y>>, p3, p1)
    IN  \/ (d1 < 0 /\ d2 < 0 /\ d3 < 0)
        \/ (d1 > 0 /\ d2 > 0 /\ d3 > 0)

\* _point_in_triangle(x, y, p1, p2, p3)
PointInTriangle(x, y, p1, p2, p3) ==
    LET d1 == Sign(<<x, y>>, p1, p2)
        d2 == Sign(<<x, y>>, p2, p3)
        d3 == Sign(<<x, y>>, p3, p1)
        has_neg == (d1 < 0) \/ (d2 < 0) \/ (d3 < 0)
        has_pos == (d1 > 0) \/ (d2 > 0) \/ (d3 > 0)
    IN  ~(has_neg /\ has_pos)

\* A midpoint pushed one pixel down and to the right.
MidShifted(a, b) == <<(a[1] + b[1]) \div 2 + 1, (a[2] + b[2]) \div 2 + 1>>

\* The midpoint ((a.x + b.x) // 2, (a.y + b.y) // 2)
Mid(a, b) == <<(a[1] + b[1]) \div 2, (a[2] + b[2]) \div 2>>

\* A draw_triangle that also recurses into the central sub-triangle
\* (mid1, mid2, mid3).
RECURSIVE LeavesWithCentre(_, _, _, _)
LeavesWithCentre(p1, p2, p3, depth) ==
    IF depth = 0 THEN <<(<<p1, p2, p3>>)>>
    ELSE LET mid1 == Mid(p1, p2)
             mid2 == Mid(p2, p3)
             mid3 == Mid(p3, p1)
         IN  LeavesWithCentre(p1, mid1, mid3, depth - 1)
               \o LeavesWithCentre(mid1, p2, mid2, depth - 1)
               \o LeavesWithCentre(mid3, mid2, p3, depth - 1)
               \o LeavesWithCentre(mid1, mid2, mid3, depth - 1)

\* The depth-0 calls draw_triangle(p1, p2, p3, depth) makes, in call order.
RECURSIVE Leaves(_, _, _, _)
Leaves(p1, p2, p3, depth) ==
    IF depth = 0 THEN <<(<<p1, p2, p3>>)>>
    ELSE LET mid1 == Mid(p1, p2)
             mid2 == Mid(p2, p3)
             mid3 == Mid(p3, p1)
         IN  Leaves(p1, mid1, mid3, depth - 1)
               \o Leaves(mid1, p2, mid2, depth - 1)
               \o Leaves(mid3, mid2, p3, depth - 1)

\* The vertices generate() starts from.
Vertices(w, h) ==
    <<(<<w \div 2, Margin>>), <<Margin, h - Margin>>, <<w - Margin, h - Margin>>>>

\* Whether the depth-0 fill of triangle t paints pixel (x, y) of a w x h image.
FillPaints(t, x, y, w, h) ==
    /\ Min(Min(t[1][2], t[2][2]), t[3][2]) <= y
    /\ y <= Max(Max(t[1][2], t[2][2]), t[3][2])
    /\ Min(Min(t[1][1], t[2][1]), t[3][1]) <= x
    /\ x <= Max(Max(t[1][1], t[2][1]), t[3][1])
    /\ PointInTriangle(x, y, t[1], t[2], t[3])
    /\ 0 <= y /\ y < h /\ 0 <= x /\ x < w

\* The image after the depth-0 fill of triangle t.
FillTriangle(image, t) ==
    [image EXCEPT !.px = [p \in DOMAIN image.px |->
        IF FillPaints(t, p[2], p[1], image.w, image.h) THEN Black
        ELSE image.px[p]]]

\* The image after the fills of the triangles ts[i .. Len(ts)].
RECURSIVE FillAll(_, _, _)
FillAll(image, ts, i) ==
    IF i > Len(ts) THEN image ELSE FillAll(FillTriangle(image, ts[i]), ts, i + 1)

----------------------------------------------------------------------------
(* Dragon curve: DragonCurveGenerator *)

Flip(turn) == IF turn = "R" THEN "L" ELSE "R"

\* The sequence with the turns flipped but not reversed.
FlipOnly(sequence) == [i \in 1 .. Len(sequence) |-> Flip(sequence[i])]

\* reversed(sequence) with the turns flipped
FlipReverse(sequence) ==
    [i \in 1 .. Len(sequence) |-> Flip(sequence[Len(sequence) + 1 - i])]

\* An expansion that leaves out the "R" between the sequence and its flipped
\* reverse.
RECURSIVE DragonSequenceNoMiddle(_)
DragonSequenceNoMiddle(iterations) ==
    IF iterations <= 0 THEN <<"R">>
    ELSE LET sequence == DragonSequenceNoMiddle(iterations - 1)
         IN  sequence \o FlipReverse(sequence)

\* An expansion that starts from the empty sequence instead of "R".
RECURSIVE DragonSequenceFromEmpty(_)
DragonSequenceFromEmpty(iterations) ==
    IF iterations <= 0 THEN <<>>
    ELSE LET sequence == DragonSequenceFromEmpty(iterations - 1)
         IN  sequence \o <<"R">> \o FlipReverse(sequence)

\* _generate_dragon_sequence(iterations)
RECURSIVE DragonSequence(_)
DragonSequence(iterations) ==
    IF iterations <= 0 THEN <<"R">>
    ELSE LET sequence == DragonSequence(iterations - 1)
         IN  sequence \o <<"R">> \o FlipReverse(sequence)

\* 2 ** k for k >= 0
RECURSIVE Pow2(_)
Pow2(k) == IF k <= 0 THEN 1 ELSE 2 * Pow2(k - 1)

\* step_size of generate()
StepSize(w, h, iterations) == Max(2, Min(w, h) \div Pow2(iterations \div 2))

\* (int(cos(angle)), int(sin(angle))) for angle = k * pi / 2: the heading after
\* k net left turns.
Heading(k) ==
    CASE k % 4 = 0 -> <<1, 0>>
      [] k % 4 = 1 -> <<0, 1>>
      [] k % 4 = 2 -> <<-1, 0>>
      [] OTHER -> <<0, -1>>

\* A cursor that is not clamped to the canvas.
ClampOff(v, hi) == v

\* max(0, min(hi - 1, v))
Clamp(v, hi) == Max(0, Min(hi - 1, v))

\* The cursor after one step of the walk from pt with heading k.
Advance(pt, k, step, w, h) ==
    <<Clamp(pt[1] + step * Heading(k)[1], w), Clamp(pt[2] + step * Heading(k)[2], h)>>

\* The points the walk appends for sequence[i ..], from cursor pt and heading k.
RECURSIVE Walk(_, _, _, _, _, _, _)
Walk(sequence, i, pt, k, step, w, h) ==
    IF i > Len(sequence) THEN <<>>
    ELSE LET nxt == Advance(pt, k, step, w, h)
             k2 == IF sequence[i] = "R" THEN k - 1 ELSE k + 1
         IN  <<nxt>> \o Walk(sequence, i + 1, nxt, k2, step, w, h)

\* points of generate(): the start and every cursor position after it.
WalkPoints(w, h, iterations) ==
    <<(<<w \div 2, h \div 2>>)>>
      \o Walk(DragonSequence(iterations), 1, <<w \div 2, h \div 2>>, 0,
              StepSize(w, h, iterations), w, h)

Abs(v) == IF v < 0 THEN -v ELSE v

\* _draw_line's loop with `left` rounds to go: the positions <<x, y>> it visits.
RECURSIVE LineLoop(_, _, _, _, _, _, _, _)
LineLoop(x, y, error, dx, dy, x_inc, y_inc, left) ==
    IF left <= 0 THEN {}
    ELSE {<<x, y>>} \cup
         (IF error > 0
          THEN LineLoop(x + x_inc, y, error - dy, dx, dy, x_inc, y_inc, left - 1)
          ELSE LineLoop(x, y + y_inc, error + dx, dx, dy, x_inc, y_inc, left - 1))

\* The image after _draw_line(image, x1, y1, x2, y2, color)
DrawLine(image, x1, y1, x2, y2, color) ==
    LET dx == Abs(x2 - x1)
        dy == Abs(y2 - y1)
        x_inc == IF x1 < x2 THEN 1 ELSE -1
        y_inc == IF y1 < y2 THEN 1 ELSE -1
        visited == LineLoop(x1, y1, dx - dy, dx, dy, x_inc, y_inc, Max(dx, dy) + 1)
    IN  [image EXCEPT !.px = [p \in DOMAIN image.px |->
            IF <<p[2], p[1]>> \in visited THEN color ELSE image.px[p]]]

\* The image after the lines points[i] -> points[i + 1], i .. Len(points) - 1.
RECURSIVE DrawAll(_, _, _)
DrawAll(image, points, i) ==
    IF i >= Len(points) THEN image
    ELSE DrawAll(DrawLine(image, points[i][1], points[i][2],
                          points[i + 1][1], points[i + 1][2], Red),
                 points, i + 1)


----------------------------------------------------------------------------
(* generate() of the four generator classes, as functions of what they read *)

Classes == {"Mandelbrot", "Julia", "Sierpinski", "Dragon"}
EscapeClasses == {"Mandelbrot", "Julia"}

\* iterations of pixel (x, y) when the while loop of an escape-time generator
\* exits.
CountOf(class, cfg, x, y) ==
    IF class = "Mandelbrot" THEN MandelbrotCount(cfg, x, y) ELSE JuliaCount(cfg, x, y)

\* The value of `iterations` at line 110 / 146, for every pixel <<y, x>>.
EscapeCounts(class, cfg) ==
    [p \in Pixels(cfg.height, cfg.width) |-> CountOf(class, cfg, p[2], p[1])]

\* image[y, x] = self.get_color(iterations, self.config.max_iterations), for
\* every pixel, on the zero image.
Colorize(cfg, counts) ==
    [NewImage(cfg.height, cfg.width, Black) EXCEPT !.px =
        [p \in Pixels(cfg.height, cfg.width) |->
            GetColor(cfg.color_scheme, counts[p], cfg.max_iterations)]]

\* MandelbrotGenerator.generate: the image it builds.
MandelbrotImage(cfg) == Colorize(cfg, EscapeCounts("Mandelbrot", cfg))

\* JuliaGenerator.generate: the image it builds.
JuliaImage(cfg) == Colorize(cfg, EscapeCounts("Julia", cfg))

\* SierpinskiGenerator.generate: the image it builds.
SierpinskiImage(cfg, triangle_iterations) ==
    LET v == Vertices(cfg.width, cfg.height)
    IN  FillAll(NewImage(cfg.height, cfg.width, White),
                Leaves(v[1], v[2], v[3], triangle_iterations), 1)

\* DragonCurveGenerator.generate: the image it builds.
DragonImage(cfg, curve_iterations) ==
    DrawAll(NewImage(cfg.height, cfg.width, White),
            WalkPoints(cfg.width, cfg.height, curve_iterations), 1)

\* Whether generate() raises: np.zeros / np.ones reject a negative dimension,
\* and 2.0 / zoom raises ZeroDivisionError.
GenRaises(class, cfg) ==
    \/ cfg.width < 0
    \/ cfg.height < 0
    \/ class \in EscapeClasses /\ cfg.zoom = 0

\* The image generate() builds when it does not raise.
Render(class, cfg, depth) ==
    CASE class = "Mandelbrot" -> MandelbrotImage(cfg)
      [] class = "Julia" -> JuliaImage(cfg)
      [] class = "Sierpinski" -> SierpinskiImage(cfg, depth)
      [] OTHER -> DragonImage(cfg, depth)


----------------------------------------------------------------------------
(* State *)

VARIABLES
    configs,    \* the FractalConfig objects: configs[i] is the fields of object i
    gens,       \* the generator objects: class, config (a reference), depth
                \* (triangle_iterations / curve_iterations), image_data
    bufs,       \* the raster buffers (numpy arrays): bufs[b] is the content of b
    calls,      \* history: the generate() calls made so far, in order
    cfgLog,     \* history: per config object, its uses
    gui,        \* main() and the FractalGUI object
    thr,        \* generate() calls in progress, one per thread
    writes,     \* history: the writes <<buffer, pixel>> callers made to rasters
                \* they hold
    unit,       \* a single call of one helper function: its arguments and,
                \* once it has returned, its result
    mgr         \* the ConfigManager object of src/config_manager.py

vars == <<configs, gens, bufs, calls, cfgLog, gui, thr, writes, unit, mgr>>

\* None, for a reference
None == 0

\* No helper call under way; no ConfigManager constructed.
NoUnit == [fn |-> "none"]
NoManager == [recent_files |-> <<>>, calls |-> <<>>]

\* FractalConfig(): the dataclass defaults.  width, height and max_iterations
\* (800, 600, 100 in the source) are scaled down to the model's bounds.
DefaultConfig ==
    FractalConfig(MaxW, MaxH, MaxIter, Fx(1), Fx(0), Fx(0), "rainbow",
                  <<Lit(-7, 10), Lit(27015, 100000)>>, Fx(2))

\* FractalGenerator.__init__ (and the subclasses' __init__)
NewGen(class, config, depth) ==
    [class |-> class, config |-> config, depth |-> depth, image_data |-> None]

\* An allocation the code does not make: the generator draws into the buffer
\* of its last call.
AllocReuse(G, B, g) ==
    IF G[g].image_data # None THEN G[g].image_data ELSE Len(B) + 1

\* An allocation the code does not make: one image shared by every generator.
AllocShared(G, B, g) == 1

\* The buffer np.zeros / np.ones allocates for the generate() call of
\* generator g, in a heap of generators G and buffers B: a new one.
AllocId(G, B, g) == Len(B) + 1

\* B with buffer id holding image.
Store(B, id, image) ==
    IF id > Len(B) THEN Append(B, image) ELSE [B EXCEPT ![id] = image]

\* The history entry of a generate() call: the generator, the fields its config
\* had, whether the call raised, the buffer and the raster it returned, and the
\* iteration count the escape loop ended with at each pixel.
CallEntry(G, C, g, raised, buf, out) ==
    [gen |-> g, class |-> G[g].class, depth |-> G[g].depth,
     config |-> G[g].config, cfg |-> C[G[g].config],
     raised |-> raised, buf |-> buf, out |-> out,
     counts |-> IF ~raised /\ G[g].class \in EscapeClasses
                THEN EscapeCounts(G[g].class, C[G[g].config])
                ELSE <<>>]

\* A generate() that caches: a generator that has an image returns it again.
GenerateCached(G, C, B, g) ==
    IF GenRaises(G[g].class, C[G[g].config])
    THEN [gens |-> G, bufs |-> B,
          entry |-> CallEntry(G, C, g, TRUE, None, NewImage(0, 0, Black))]
    ELSE IF G[g].image_data # None
    THEN [gens |-> G, bufs |-> B,
          entry |-> CallEntry(G, C, g, FALSE, G[g].image_data, B[G[g].image_data])]
    ELSE LET id == AllocId(G, B, g)
             image == Render(G[g].class, C[G[g].config], G[g].depth)
         IN  [gens |-> [G EXCEPT ![g].image_data = id],
              bufs |-> Store(B, id, image),
              entry |-> CallEntry(G, C, g, FALSE, id, image)]

\* A generate() without line 113: the image is returned, image_data not set.
GenerateNoStore(G, C, B, g) ==
    IF GenRaises(G[g].class, C[G[g].config])
    THEN [gens |-> G, bufs |-> B,
          entry |-> CallEntry(G, C, g, TRUE, None, NewImage(0, 0, Black))]
    ELSE LET id == AllocId(G, B, g)
             image == Render(G[g].class, C[G[g].config], G[g].depth)
         IN  [gens |-> G,
              bufs |-> Store(B, id, image),
              entry |-> CallEntry(G, C, g, FALSE, id, image)]

\* A generate() that resets image_data before it computes: a call that raises
\* leaves the generator without its raster.
GenerateOnClearing(G, C, B, g) ==
    IF GenRaises(G[g].class, C[G[g].config])
    THEN [gens |-> [G EXCEPT ![g].image_data = None], bufs |-> B,
          entry |-> CallEntry(G, C, g, TRUE, None, NewImage(0, 0, Black))]
    ELSE LET id == AllocId(G, B, g)
             image == Render(G[g].class, C[G[g].config], G[g].depth)
         IN  [gens |-> [G EXCEPT ![g].image_data = id],
              bufs |-> Store(B, id, image),
              entry |-> CallEntry(G, C, g, FALSE, id, image)]

\* generator.generate() of generator g in a heap of generators G, configs C
\* and buffers B: the generators and buffers after the call and the call's
\* history entry.  A call that raises changes nothing; a call that returns
\* has allocated its image, drawn it, stored it in image_data and returned it.
GenerateOn(G, C, B, g) ==
    IF GenRaises(G[g].class, C[G[g].config])
    THEN [gens |-> G, bufs |-> B,
          entry |-> CallEntry(G, C, g, TRUE, None, NewImage(0, 0, Black))]
    ELSE LET id == AllocId(G, B, g)
             image == Render(G[g].class, C[G[g].config], G[g].depth)
         IN  [gens |-> [G EXCEPT ![g].image_data = id],
              bufs |-> Store(B, id, image),
              entry |-> CallEntry(G, C, g, FALSE, id, image)]

\* generator.generate() on the current heap.
GenerateCall(g) ==
    LET r == GenerateOn(gens, configs, bufs, g)
    IN  /\ gens' = r.gens
        /\ bufs' = r.bufs
        /\ calls' = Append(calls, r.entry)
        /\ cfgLog' = [cfgLog EXCEPT ![gens[g].config].consumed = @ + 1]

----------------------------------------------------------------------------
(* Spec: a client of the generator classes *)

\* The configs the client constructs.
ApiConfigs == {[DefaultConfig EXCEPT !.zoom = z] : z \in {Fx(1), 0}}

\* The depths the client passes to the recursive generators.
Depths == {0, MaxDepth}

\* The value a caller writes into a raster it holds.
Mark == <<1, 2, 3>>

Init ==
    /\ configs = <<>>
    /\ gens = <<>>
    /\ bufs = <<>>
    /\ calls = <<>>
    /\ cfgLog = <<>>
    /\ gui = [mode |-> "api", config |-> None, current_generator |-> None,
              current_image |-> None]
    /\ thr = <<>>
    /\ writes = <<>>
    /\ unit = NoUnit
    /\ mgr = NoManager

\* config = FractalConfig(...)
NewConfig(c) ==
    /\ Len(configs) + 1 \in ConfigIds
    /\ configs' = Append(configs, c)
    /\ cfgLog' = Append(cfgLog, [handed |-> 0, consumed |-> 0, mutated |-> FALSE])
    /\ UNCHANGED <<gens, bufs, calls, gui, thr, writes, unit, mgr>>

\* config.max_iterations = n; config.color_scheme = scheme
SetConfig(i, n, scheme) ==
    /\ i \in DOMAIN configs
    /\ ~cfgLog[i].mutated
    /\ configs' = [configs EXCEPT ![i].max_iterations = n, ![i].color_scheme = scheme]
    /\ cfgLog' = [cfgLog EXCEPT ![i].mutated = TRUE]
    /\ UNCHANGED <<gens, bufs, calls, gui, thr, writes, unit, mgr>>

\* config.zoom = zoom
SetZoom(i, zoom) ==
    /\ i \in DOMAIN configs
    /\ ~cfgLog[i].mutated
    /\ configs[i].zoom # zoom
    /\ configs' = [configs EXCEPT ![i].zoom = zoom]
    /\ cfgLog' = [cfgLog EXCEPT ![i].mutated = TRUE]
    /\ UNCHANGED <<gens, bufs, calls, gui, thr, writes, unit, mgr>>

\* XGenerator(config) / XGenerator(config, iterations=depth)
NewGenerator(class, i, depth) ==
    /\ Len(gens) + 1 \in GenIds
    /\ i \in DOMAIN configs
    /\ class \in EscapeClasses => depth = 0
    /\ gens' = Append(gens, NewGen(class, i, depth))
    /\ cfgLog' = [cfgLog EXCEPT ![i].handed = @ + 1]
    /\ UNCHANGED <<configs, bufs, calls, gui, thr, writes, unit, mgr>>

\* image = generator.generate()
Generate(g) ==
    /\ Len(calls) < MaxCalls
    /\ g \in DOMAIN gens
    /\ GenerateCall(g)
    /\ UNCHANGED <<configs, gui, thr, writes, unit, mgr>>

\* image[y, x] = Mark, by the caller that got image from generate()
CallerWrite(b, p) ==
    /\ Len(writes) < MaxWrites
    /\ b \in DOMAIN bufs
    /\ p \in DOMAIN bufs[b].px
    /\ bufs' = [bufs EXCEPT ![b].px[p] = Mark]
    /\ writes' = Append(writes, <<b, p>>)
    /\ UNCHANGED <<configs, gens, calls, cfgLog, gui, thr, unit, mgr>>

Next ==
    \/ \E c \in ApiConfigs : NewConfig(c)
    \/ \E i \in ConfigIds, n \in {1}, s \in {"grayscale"} : SetConfig(i, n, s)
    \/ \E class \in Classes, i \in ConfigIds, d \in Depths : NewGenerator(class, i, d)
    \/ \E g \in GenIds : Generate(g)
    \/ \E b \in 1 .. MaxCalls : CallerWrite(b, <<0, 0>>)

Spec == Init /\ [][Next]_vars

\* A client that sets zoom on a config its generators hold, between their
\* generate() calls: a generator that returned a raster can raise next time.
NextFrame ==
    \/ \E c \in ApiConfigs : NewConfig(c)
    \/ \E i \in ConfigIds, z \in {Fx(1), 0} : SetZoom(i, z)
    \/ \E class \in Classes, i \in ConfigIds, d \in Depths : NewGenerator(class, i, d)
    \/ \E g \in GenIds : Generate(g)

SpecFrame == Init /\ [][NextFrame]_vars


----------------------------------------------------------------------------
(* Claims checked under Spec *)

\* The generate() calls that returned a raster.
Returned == {i \in DOMAIN calls : ~calls[i].raised}

\* The pixels of buffer b that a caller has written.
Written(b) == {w[2] : w \in {v \in {writes[k] : k \in DOMAIN writes} : v[1] = b}}

C6_FreshRaster ==
    /\ \A i, j \in Returned : i # j => calls[i].buf # calls[j].buf
    /\ \A i \in Returned :
          /\ calls[i].buf \in DOMAIN bufs
          /\ bufs[calls[i].buf].h = calls[i].out.h
          /\ bufs[calls[i].buf].w = calls[i].out.w
          /\ \A p \in DOMAIN calls[i].out.px :
                bufs[calls[i].buf].px[p] =
                    IF p \in Written(calls[i].buf) THEN Mark ELSE calls[i].out.px[p]

\* One generator returned two different rasters (its config was changed in
\* between) and the first one is still as it was returned.
C6_Witness ==
    \E i, j \in Returned :
        /\ i < j
        /\ calls[i].gen = calls[j].gen
        /\ calls[i].out # calls[j].out
        /\ calls[i].out.h = calls[j].out.h
        /\ bufs[calls[i].buf] = calls[i].out
        /\ bufs[calls[j].buf] = calls[j].out

\* Calls i and j are of the same class over configurations that differ in
\* max_iterations (and the color scheme) at most.
SameButCap(i, j) ==
    /\ calls[i].class = calls[j].class
    /\ [calls[i].cfg EXCEPT !.max_iterations = 0, !.color_scheme = ""]
         = [calls[j].cfg EXCEPT !.max_iterations = 0, !.color_scheme = ""]

\* The escape-time calls that returned a raster, in Spec.
CountedCalls == {i \in Returned : calls[i].class \in EscapeClasses}

\* The call generate() returned from last, if it was an escape-time call;
\* every call is the latest one in the state its generate() returns into.
LatestCounted == {i \in CountedCalls : i = Len(calls)}

\* C27: for a fixed start, constant and escape_radius the count under cap N is
\* min(N, count under any larger cap N'): raising max_iterations never lowers
\* a pixel's count and never changes the count of a pixel that escaped below
\* the old cap.  Checked of every returned raster against the loop run under
\* each lower cap, and of every two rasters that differ in the cap only.
C27_CapMonotone ==
    /\ \A j \in LatestCounted : \A p \in DOMAIN calls[j].counts :
          \A n \in 1 .. calls[j].cfg.max_iterations :
              CountOf(calls[j].class, [calls[j].cfg EXCEPT !.max_iterations = n],
                      p[2], p[1])
                = Min(n, calls[j].counts[p])
    /\ \A i, j \in CountedCalls :
          (SameButCap(i, j) /\ calls[i].cfg.max_iterations <= calls[j].cfg.max_iterations)
          => \A p \in DOMAIN calls[j].counts :
                /\ calls[i].counts[p] = Min(calls[i].cfg.max_iterations, calls[j].counts[p])
                /\ calls[i].counts[p] <= calls[j].counts[p]
                /\ calls[i].counts[p] < calls[i].cfg.max_iterations
                      => calls[j].counts[p] = calls[i].counts[p]

\* Two rasters of one viewport under caps 1 and MaxIter: one pixel was cut
\* off by the lower cap and counts higher under the higher one, another
\* escaped below the lower cap and kept its count.
C27_Witness ==
    \E i, j \in CountedCalls : \E p, q \in DOMAIN calls[j].counts :
        /\ SameButCap(i, j)
        /\ calls[i].cfg.max_iterations < calls[j].cfg.max_iterations
        /\ calls[i].counts[p] = calls[i].cfg.max_iterations
        /\ calls[j].counts[p] > calls[i].counts[p]
        /\ calls[i].counts[q] < calls[i].cfg.max_iterations
        /\ calls[j].counts[q] = calls[i].counts[q]

\* A generator with its image_data attribute blanked: what generate() must
\* leave as it found it.
Kept(gen) == [gen EXCEPT !.image_data = None]

\* C29: generate() of every variant leaves the config and the recursion-depth
\* parameter unchanged: the only generator state that differs before and
\* after a call is image_data (of the generator called), and when generate()
\* raises, image_data and the raster it refers to are unchanged as well.
C29_FrameOfGenerate ==
    [][Len(calls') = Len(calls) + 1
         => LET e == calls'[Len(calls')]
            IN  /\ configs' = configs
                /\ DOMAIN gens' = DOMAIN gens
                /\ \A h \in DOMAIN gens :
                      /\ Kept(gens'[h]) = Kept(gens[h])
                      /\ h # e.gen => gens'[h] = gens[h]
                /\ e.cfg = configs[gens[e.gen].config]
                /\ e.depth = gens[e.gen].depth
                /\ e.raised => gens' = gens /\ bufs' = bufs
                /\ ~e.raised => gens'[e.gen].image_data = e.buf]_vars

\* A generator whose generate() returned a raster and, after the client set
\* zoom = 0 on its config, raised: image_data still refers to the raster of
\* the first call, and that raster is as the first call returned it.
C29_Witness ==
    \E i, j \in DOMAIN calls :
        /\ i < j
        /\ calls[i].gen = calls[j].gen
        /\ ~calls[i].raised
        /\ calls[j].raised
        /\ calls[j].cfg.zoom = 0
        /\ gens[calls[j].gen].image_data = calls[i].buf
        /\ bufs[calls[i].buf] = calls[i].out

----------------------------------------------------------------------------
(* A single generator over a swept configuration.

   The configuration is drawn once, from the configurations a caller can
   construct (FractalConfig checks none of its fields), and generate() is
   called on a generator built over it. *)

\* Field values the dataclass accepts and every generator renders.
SweepValid ==
    {FractalConfig(w, h, n, zoom, cx, cy, scheme, jc, radius) :
        w \in 1 .. MaxW, h \in 1 .. MaxH, n \in 1 .. MaxIter,
        zoom \in {Fx(1), Fx(2)}, cx \in {Fx(0), Fx(3)}, cy \in {Fx(0), Lit(1, 2)},
        scheme \in Schemes \cup {"sepia"},
        jc \in {<<Fx(0), Fx(0)>>, <<Lit(-7, 10), Lit(27015, 100000)>>},
        radius \in {Fx(2), Fx(1)}}

\* The default configuration with one field zero or negative.
SweepNonPositive ==
    UNION {{[DefaultConfig EXCEPT !.width = v],
            [DefaultConfig EXCEPT !.height = v],
            [DefaultConfig EXCEPT !.max_iterations = v],
            [DefaultConfig EXCEPT !.zoom = Fx(v)],
            [DefaultConfig EXCEPT !.escape_radius = Fx(v)]} : v \in {0, -1}}

SweepConfigs == SweepValid \cup SweepNonPositive

\* The end-to-end scenario: a 100 x 75 grayscale Mandelbrot over the default
\* viewport with max_iterations 50.
ScenarioConfig ==
    FractalConfig(100, 75, 50, Fx(1), Fx(0), Fx(0), "grayscale",
                  <<Lit(-7, 10), Lit(27015, 100000)>>, Fx(2))

\* The default configuration on a CanvasW x CanvasH canvas.
CanvasConfig == [DefaultConfig EXCEPT !.width = CanvasW, !.height = CanvasH]

\* The default configuration zoomed in until the viewport is narrower than
\* the spacing of the number grid (in the source: zoom = 1e17 on doubles).
DeepZoomConfig == [DefaultConfig EXCEPT !.zoom = Fx(8192)]

\* The generators of the sweep: every class over every swept configuration,
\* the scenario's Mandelbrot generator, Sierpinski generators of depth 1 and 2
\* over the canvas configuration, and the escape-time generators at deep zoom.
SweepCases ==
    {[cfg |-> c, class |-> class,
      depth |-> IF class \in EscapeClasses THEN 0 ELSE MaxDepth] :
        c \in SweepConfigs, class \in Classes}
    \cup {[cfg |-> ScenarioConfig, class |-> "Mandelbrot", depth |-> 0]}
    \cup {[cfg |-> CanvasConfig, class |-> "Sierpinski", depth |-> d] : d \in {1, 2}}
    \cup {[cfg |-> DeepZoomConfig, class |-> class, depth |-> 0] :
             class \in EscapeClasses}

InitSweep ==
    /\ \E s \in SweepCases :
          /\ configs = <<s.cfg>>
          /\ gens = <<NewGen(s.class, 1, s.depth)>>
    /\ cfgLog = <<[handed |-> 1, consumed |-> 0, mutated |-> FALSE]>>
    /\ bufs = <<>>
    /\ calls = <<>>
    /\ gui = [mode |-> "api", config |-> None, current_generator |-> None,
              current_image |-> None]
    /\ thr = <<>>
    /\ writes = <<>>
    /\ unit = NoUnit
    /\ mgr = NoManager

NextSweep == \E g \in DOMAIN gens : Generate(g)

SpecSweep == InitSweep /\ [][NextSweep]_vars

\* The configuration satisfies what the specification requires of it.
PositiveConfig(cfg) ==
    /\ cfg.width > 0
    /\ cfg.height > 0
    /\ cfg.max_iterations > 0
    /\ cfg.zoom > 0
    /\ cfg.escape_radius > 0

\* The complex number pixel <<y, x>> is mapped to.
PixelC(cfg, p) == <<PixelReal(cfg, p[2]), PixelImag(cfg, p[1])>>

\* The escape-time calls that returned a raster.
EscapeReturned == {i \in Returned : calls[i].class \in EscapeClasses}

\* C1: get_color returns (0, 0, 0) when iterations equals max_iterations, under
\* every color scheme; so every pixel whose escape loop ran to the cap is black
\* in the raster generate() returns.
C1_CapIsBlack ==
    /\ \A i \in Returned : \A scheme \in Schemes \cup {"sepia"} :
          GetColor(scheme, calls[i].cfg.max_iterations,
                   calls[i].cfg.max_iterations) = Black
    /\ \A i \in EscapeReturned : \A p \in DOMAIN calls[i].counts :
          calls[i].counts[p] = calls[i].cfg.max_iterations
             => /\ calls[i].out.px[p] = Black
                /\ bufs[calls[i].buf].px[p] = Black

\* A non-grayscale raster holding a pixel that ran to the cap (black) next to
\* one that escaped earlier and is coloured.
C1_Witness ==
    \E i \in EscapeReturned : \E p, q \in DOMAIN calls[i].counts :
        /\ calls[i].cfg.color_scheme = "rainbow"
        /\ calls[i].counts[p] = calls[i].cfg.max_iterations
        /\ calls[i].out.px[p] = Black
        /\ calls[i].counts[q] < calls[i].cfg.max_iterations
        /\ calls[i].out.px[q] # Black

\* C4 as stated: generate() on a configuration whose width, height,
\* max_iterations, escape_radius or zoom is zero or negative raises, and no
\* raster comes back.
C4_NonPositiveRaises ==
    \A i \in DOMAIN calls :
        ~PositiveConfig(calls[i].cfg) => calls[i].raised /\ calls[i].buf = None

\* C9 as stated: with center_y = 0 the Mandelbrot iteration count of pixel
\* (px, py) equals that of its mirror (px, height - 1 - py), the mirror row
\* being mapped to the complex conjugate.
C9_MirrorSymmetry ==
    \A i \in Returned :
        (calls[i].class = "Mandelbrot" /\ PositiveConfig(calls[i].cfg)
            /\ calls[i].cfg.center_y = 0)
        => \A p \in DOMAIN calls[i].counts :
             LET m == <<calls[i].cfg.height - 1 - p[1], p[2]>>
             IN  /\ PixelC(calls[i].cfg, m)[1] = PixelC(calls[i].cfg, p)[1]
                 /\ PixelC(calls[i].cfg, m)[2] = -PixelC(calls[i].cfg, p)[2]
                 /\ calls[i].counts[m] = calls[i].counts[p]

\* C10: with escape_radius 2.0 a Mandelbrot pixel mapped to c = 0 runs to the
\* cap (count = max_iterations), and a pixel mapped to c = 3 escapes after one
\* update (count = 1), for every max_iterations >= 1.
C10_KnownPoints ==
    \A i \in Returned :
        (calls[i].class = "Mandelbrot" /\ calls[i].cfg.escape_radius = Fx(2)
            /\ calls[i].cfg.max_iterations >= 1)
        => \A p \in DOMAIN calls[i].counts :
             /\ PixelC(calls[i].cfg, p) = <<Fx(0), Fx(0)>>
                   => calls[i].counts[p] = calls[i].cfg.max_iterations
             /\ PixelC(calls[i].cfg, p) = <<Fx(3), Fx(0)>>
                   => calls[i].counts[p] = 1

\* A Mandelbrot raster with cap MaxIter whose centre pixel is c = 3 and has
\* count 1, and one whose centre pixel is c = 0 and has count MaxIter, are both
\* among the swept calls; the state holds the first.
C10_Witness ==
    \E i \in Returned : \E p \in DOMAIN calls[i].counts :
        /\ calls[i].class = "Mandelbrot"
        /\ calls[i].cfg.escape_radius = Fx(2)
        /\ calls[i].cfg.max_iterations = MaxIter
        /\ PixelC(calls[i].cfg, p) = <<Fx(3), Fx(0)>>
        /\ calls[i].counts[p] = 1

\* The calls of the end-to-end scenario that returned.
ScenarioReturned ==
    {i \in Returned : calls[i].cfg = ScenarioConfig /\ calls[i].class = "Mandelbrot"}

\* C11 as stated: in the end-to-end scenario pixel (0, 0), mapped to
\* c = -2 - 1.5i, is a light gray close to (255, 255, 255).
C11_LightGray ==
    \A i \in ScenarioReturned :
        LET px == calls[i].out.px[<<0, 0>>]
        IN  /\ px[1] = px[2] /\ px[2] = px[3]
            /\ px[1] >= 128

\* C11: in the end-to-end scenario pixel (0, 0) is mapped to c = -2 - 1.5i,
\* escapes after one update (count 1) and is the dark gray (5, 5, 5), close to
\* (0, 0, 0); the centre pixel (50, 37) runs to the cap and is black.
C11_DarkGray ==
    \A i \in ScenarioReturned :
        /\ PixelC(calls[i].cfg, <<0, 0>>) = <<Fx(-2), Lit(-3, 2)>>
        /\ calls[i].counts[<<0, 0>>] = 1
        /\ calls[i].out.px[<<0, 0>>] = <<5, 5, 5>>
        /\ calls[i].counts[<<37, 50>>] = 50
        /\ calls[i].out.px[<<37, 50>>] = Black

\* The scenario's raster has come back, 75 rows of 100 pixels, with its
\* corner pixel coloured by count 1.
C11_Witness ==
    \E i \in ScenarioReturned :
        /\ calls[i].out.h = 75 /\ calls[i].out.w = 100
        /\ calls[i].counts[<<0, 0>>] = 1
        /\ calls[i].out.px[<<0, 0>>] # Black

\* An RGB triple of integers in [0, 255].
Rgb8(color) ==
    /\ DOMAIN color = 1 .. 3
    /\ \A k \in 1 .. 3 : color[k] \in 0 .. 255

\* C12: for a positive configuration the raster generate() returns, for every
\* variant, has height rows of width pixels, each pixel three integer channels
\* in [0, 255]; and get_color returns channels in [0, 255] for every count in
\* 0 .. max_iterations under every color scheme.
C12_RasterWellFormed ==
    \A i \in Returned :
        PositiveConfig(calls[i].cfg)
        => /\ calls[i].out.h = calls[i].cfg.height
           /\ calls[i].out.w = calls[i].cfg.width
           /\ DOMAIN calls[i].out.px
                 = (0 .. calls[i].cfg.height - 1) \X (0 .. calls[i].cfg.width - 1)
           /\ \A p \in DOMAIN calls[i].out.px : Rgb8(calls[i].out.px[p])
           /\ bufs[calls[i].buf] = calls[i].out
           /\ \A scheme \in Schemes \cup {"sepia"} :
                 \A n \in 0 .. calls[i].cfg.max_iterations :
                     Rgb8(GetColor(scheme, n, calls[i].cfg.max_iterations))

\* A fire-coloured escape-time raster of the largest swept size that holds a
\* pixel with a saturated channel next to a partly lit one.
C12_Witness ==
    \E i \in EscapeReturned : \E p \in DOMAIN calls[i].out.px :
        /\ PositiveConfig(calls[i].cfg)
        /\ calls[i].cfg.color_scheme = "fire"
        /\ calls[i].out.h = MaxH /\ calls[i].out.w = MaxW
        /\ calls[i].out.px[p][1] = 255
        /\ calls[i].out.px[p][2] \in 1 .. 254

\* The pixels of call i that the palette branch of get_color coloured.
PalettePixels(i) ==
    {p \in DOMAIN calls[i].counts : calls[i].counts[p] # calls[i].cfg.max_iterations}

\* The palette's rational value for channel k of pixel p of call i.
PaletteValue(i, p, k) ==
    PaletteRgb(calls[i].cfg.color_scheme, calls[i].counts[p],
               calls[i].cfg.max_iterations)[k]

\* C13 as stated: each channel is clamp(round(255 * v), 0, 255) of the
\* palette's value v.
C13_RoundedAndClamped ==
    \A i \in EscapeReturned :
        PositiveConfig(calls[i].cfg)
        => \A p \in PalettePixels(i) : \A k \in 1 .. 3 :
              calls[i].out.px[p][k] = ChanRounded(PaletteValue(i, p, k))

\* C13: each channel is int(v * 255), the product truncated towards zero and
\* not clamped: it is never above 255 * v and at most one below it, and it
\* lies in [0, 255] because the palettes keep v in [0, 1].
C13_Truncated ==
    \A i \in EscapeReturned :
        PositiveConfig(calls[i].cfg)
        => \A p \in PalettePixels(i) : \A k \in 1 .. 3 :
              LET v == PaletteValue(i, p, k)
                  ch == calls[i].out.px[p][k]
              IN  /\ 0 <= v[1] /\ v[1] <= v[2]
                  /\ ch * v[2] <= 255 * v[1]
                  /\ 255 * v[1] - ch * v[2] <= v[2]
                  /\ ch \in 0 .. 255

\* A pixel whose value times 255 has fractional part at least 1/2 and whose
\* channel is the integer below (grayscale 1/2 gives 127).
C13_Witness ==
    \E i \in EscapeReturned : \E p \in PalettePixels(i) :
        LET v == PaletteValue(i, p, 1)
            ch == calls[i].out.px[p][1]
        IN  /\ PositiveConfig(calls[i].cfg)
            /\ calls[i].cfg.color_scheme = "grayscale"
            /\ 2 * ((255 * v[1]) % v[2]) >= v[2]
            /\ ch = (255 * v[1]) \div v[2]
            /\ ch # ChanRounded(v)

\* The color of count 0 under `scheme`: red for rainbow, black otherwise.
ZeroColor(scheme) == IF scheme = "rainbow" THEN <<255, 0, 0>> ELSE <<0, 0, 0>>

\* C14: at count 0 (t = 0) get_color gives (0, 0, 0) for grayscale, ocean and
\* fire and (255, 0, 0) for rainbow, for every max_iterations >= 1; so every
\* pixel whose loop made no update has that color.
C14_ZeroCount ==
    \A i \in Returned :
        calls[i].cfg.max_iterations >= 1
        => /\ \A scheme \in Schemes :
                 GetColor(scheme, 0, calls[i].cfg.max_iterations) = ZeroColor(scheme)
           /\ \A p \in DOMAIN calls[i].counts :
                 (calls[i].counts[p] = 0 /\ calls[i].cfg.color_scheme \in Schemes)
                 => calls[i].out.px[p] = ZeroColor(calls[i].cfg.color_scheme)

\* A rainbow Julia raster with cap MaxIter holding a pixel that starts outside
\* the escape radius (count 0) and is red.
C14_Witness ==
    \E i \in EscapeReturned : \E p \in DOMAIN calls[i].counts :
        /\ calls[i].class = "Julia"
        /\ calls[i].cfg.color_scheme = "rainbow"
        /\ calls[i].cfg.max_iterations = MaxIter
        /\ calls[i].counts[p] = 0
        /\ calls[i].out.px[p] = <<255, 0, 0>>

\* 3 ** k for k >= 0
RECURSIVE Pow3(_)
Pow3(k) == IF k <= 0 THEN 1 ELSE 3 * Pow3(k - 1)

\* Pixel (x, y) lies in the central sub-triangle of tri and in none of its
\* three corner sub-triangles.
CentralOnly(x, y, tri) ==
    LET mid1 == Mid(tri[1], tri[2])
        mid2 == Mid(tri[2], tri[3])
        mid3 == Mid(tri[3], tri[1])
    IN  /\ PointInTriangle(x, y, mid1, mid2, mid3)
        /\ ~PointInTriangle(x, y, tri[1], mid1, mid3)
        /\ ~PointInTriangle(x, y, mid1, tri[2], mid2)
        /\ ~PointInTriangle(x, y, mid3, mid2, tri[3])

\* Twice the area of triangle (a, b, c).
Area2(a, b, c) ==
    Abs((b[1] - a[1]) * (c[2] - a[2]) - (c[1] - a[1]) * (b[2] - a[2]))

\* The black pixels of a raster.
BlackPixels(image) == {p \in DOMAIN image.px : image.px[p] = Black}

\* Pixels p and q share an edge.
Adjacent(p, q) == Abs(p[1] - q[1]) + Abs(p[2] - q[2]) = 1

\* The pixels of B reachable from `frontier` through adjacent pixels of B,
\* together with `seen`.
RECURSIVE Grow(_, _, _)
Grow(frontier, seen, B) ==
    LET nxt == {q \in B \ seen : \E p \in frontier : Adjacent(p, q)}
    IN  IF nxt = {} THEN seen ELSE Grow(nxt, seen \cup nxt, B)

\* The number of contiguous regions of the pixel set B.
RECURSIVE RegionCount(_)
RegionCount(B) ==
    IF B = {} THEN 0
    ELSE LET p == CHOOSE q \in B : TRUE
         IN  1 + RegionCount(B \ Grow({p}, {p}, B))

\* The Sierpinski calls of depth 1 or 2 that returned a raster on a canvas
\* wider and taller than the two margins.
SierpinskiReturned ==
    {i \in Returned : /\ calls[i].class = "Sierpinski"
                      /\ calls[i].depth \in {1, 2}
                      /\ calls[i].cfg.width > 2 * Margin
                      /\ calls[i].cfg.height > 2 * Margin}

\* C16 as stated: the Sierpinski raster has exactly 3 contiguous black regions
\* at depth 1 and exactly 9 at depth 2.
C16_RegionCount ==
    \A i \in SierpinskiReturned :
        RegionCount(BlackPixels(calls[i].out)) = Pow3(calls[i].depth)

\* C16: the filled leaf triangles of the Sierpinski raster are not disjoint:
\* the fill includes the boundary, neighbouring leaves share a midpoint vertex
\* that is painted black, and at depth 1 and at depth 2 the black pixels form
\* exactly one contiguous region.
C16_OneRegion ==
    \A i \in SierpinskiReturned :
        LET tri == Vertices(calls[i].cfg.width, calls[i].cfg.height)
            image == calls[i].out
        IN  /\ RegionCount(BlackPixels(image)) = 1
            /\ \A e \in {<<1, 2>>, <<2, 3>>, <<3, 1>>} :
                   LET m == Mid(tri[e[1]], tri[e[2]])
                   IN  image.px[<<m[2], m[1]>>] = Black

\* The depth 2 raster on the canvas has come back with black pixels and with
\* white pixels inside the triangle's bounding box (the central hole).
C16_Witness ==
    \E i \in SierpinskiReturned :
        LET tri == Vertices(calls[i].cfg.width, calls[i].cfg.height)
        IN  /\ calls[i].depth = 2
            /\ calls[i].cfg.width = CanvasW
            /\ BlackPixels(calls[i].out) # {}
            /\ \E p \in DOMAIN calls[i].out.px :
                   /\ CentralOnly(p[2], p[1], tri)
                   /\ calls[i].out.px[p] = White

\* The Dragon calls that returned a raster for a positive width and height.
DragonReturned ==
    {i \in Returned : /\ calls[i].class = "Dragon"
                      /\ calls[i].cfg.width > 0
                      /\ calls[i].cfg.height > 0}

\* C22: for every positive width and height and every depth the Dragon walk
\* starts at (width // 2, height // 2), every recorded point lies on the
\* canvas, there is one point more than the sequence has turns, and the raster
\* holds only white and red (255, 0, 0) pixels, the start among the red ones.
C22_DragonInBounds ==
    \A i \in DragonReturned :
        LET w == calls[i].cfg.width
            h == calls[i].cfg.height
        IN  /\ \A n \in 0 .. calls[i].depth :
                  LET points == WalkPoints(w, h, n)
                  IN  /\ points[1] = <<w \div 2, h \div 2>>
                      /\ Len(points) = Len(DragonSequence(n)) + 1
                      /\ \A j \in DOMAIN points :
                            /\ 0 <= points[j][1] /\ points[j][1] < w
                            /\ 0 <= points[j][2] /\ points[j][2] < h
            /\ DOMAIN calls[i].out.px = (0 .. h - 1) \X (0 .. w - 1)
            /\ \A p \in DOMAIN calls[i].out.px : calls[i].out.px[p] \in {White, Red}
            /\ calls[i].out.px[<<h \div 2, w \div 2>>] = Red

\* A Dragon raster of the largest swept size and depth whose walk was stopped
\* at the border: the second point is the clamped one, and the raster holds
\* red and white pixels.
C22_Witness ==
    \E i \in DragonReturned : \E p, q \in DOMAIN calls[i].out.px :
        LET w == calls[i].cfg.width
            h == calls[i].cfg.height
            points == WalkPoints(w, h, calls[i].depth)
        IN  /\ w = MaxW /\ h = MaxH /\ calls[i].depth = MaxDepth
            /\ points[2] = <<w - 1, h \div 2>>
            /\ points[2][1] < points[1][1] + StepSize(w, h, calls[i].depth)
            /\ calls[i].out.px[p] = Red
            /\ calls[i].out.px[q] = White

\* The Sierpinski calls of depth 1 or more that returned a raster.
SubdividedReturned ==
    {i \in Returned : calls[i].class = "Sierpinski" /\ calls[i].depth >= 1}

\* Pixel p = <<y, x>> lies in the closed outer triangle of a w x h canvas.
InOuterTriangle(p, w, h) ==
    LET v == Vertices(w, h)
    IN  Area2(<<p[2], p[1]>>, v[1], v[2]) + Area2(<<p[2], p[1]>>, v[2], v[3])
          + Area2(<<p[2], p[1]>>, v[3], v[1]) = Area2(v[1], v[2], v[3])

\* C25 as stated: every pixel painted black at depth d >= 1 lies inside the
\* closed outer triangle (width // 2, 50), (50, height - 50),
\* (width - 50, height - 50).
C25_InsideOuterTriangle ==
    \A i \in SubdividedReturned :
        \A p \in BlackPixels(calls[i].out) :
            InOuterTriangle(p, calls[i].cfg.width, calls[i].cfg.height)

\* C25: every pixel painted black at depth d >= 1 lies inside the bounding
\* box of the outer triangle and inside one of the leaf triangles; a floored
\* midpoint can lie outside its parent, so the pixel need not lie inside the
\* outer triangle itself.
C25_InsideBoundingBox ==
    \A i \in SubdividedReturned :
        LET w == calls[i].cfg.width
            h == calls[i].cfg.height
            v == Vertices(w, h)
            ts == Leaves(v[1], v[2], v[3], calls[i].depth)
        IN  \A p \in BlackPixels(calls[i].out) :
               /\ Min(Min(v[1][1], v[2][1]), v[3][1]) <= p[2]
               /\ p[2] <= Max(Max(v[1][1], v[2][1]), v[3][1])
               /\ Min(Min(v[1][2], v[2][2]), v[3][2]) <= p[1]
               /\ p[1] <= Max(Max(v[1][2], v[2][2]), v[3][2])
               /\ \E k \in DOMAIN ts : FillPaints(ts[k], p[2], p[1], w, h)

\* A subdivided raster on the canvas holds a black pixel outside the closed
\* outer triangle.
C25_Witness ==
    \E i \in SubdividedReturned : \E p \in BlackPixels(calls[i].out) :
        /\ calls[i].cfg.width = CanvasW
        /\ calls[i].cfg.height = CanvasH
        /\ ~InOuterTriangle(p, calls[i].cfg.width, calls[i].cfg.height)

----------------------------------------------------------------------------
(* SpecGui: main() and the callers it starts.

   gui.mode is the position of main(): "main" before the choice is read,
   "gui" while FractalGUI's main loop runs, "cli" after the command line
   branch has finished.  The handlers of the GUI run to completion on the Tk
   thread; the values they read from the widgets and from the loaded file
   are the handler's inputs. *)

\* The fractal_type combobox holds one of its four values or any typed text.
GuiTypes == {"Mandelbrot", "Julia", "Sierpinski", "Dragon Curve", "Other"}

\* The class generate_fractal constructs for a fractal type.
GuiClass(type) ==
    CASE type = "Mandelbrot" -> "Mandelbrot"
      [] type = "Julia" -> "Julia"
      [] type = "Sierpinski" -> "Sierpinski"
      [] type = "Dragon Curve" -> "Dragon"
      [] OTHER -> "none"

\* iterations=7 / iterations=15 of the recursive generators, scaled down to the
\* model's depth bound; the escape-time generators take no depth.
GuiDepth(type) == IF type \in {"Sierpinski", "Dragon Curve"} THEN MaxDepth ELSE 0

\* What the Julia entry pair (or the julia_c key of a configuration file) can
\* hold: a complex number, text that float() rejects (in a file: an object
\* without the "real" / "imag" keys), or, in a file, no such key.
JuliaInput(kind, value) == [kind |-> kind, value |-> value]
BadFloat == JuliaInput("invalid", <<0, 0>>)
Absent == JuliaInput("absent", <<0, 0>>)

\* The values the Julia entry pair can hold.
JuliaEntries == {BadFloat, JuliaInput("number", <<Fx(0), Fx(0)>>)}

\* The values the max_iterations and zoom scales (50..500, 0.5..10 in the
\* source, scaled down) and the color_scheme combobox can hold.
ScaleIterations == {1, MaxIter}
ScaleZooms == {Lit(1, 2)}
SchemeTexts == {"rainbow", "grayscale"}

InitGui ==
    /\ configs = <<>>
    /\ gens = <<>>
    /\ bufs = <<>>
    /\ calls = <<>>
    /\ cfgLog = <<>>
    /\ gui = [mode |-> "main", config |-> None, current_generator |-> None,
              current_image |-> None]
    /\ thr = <<>>
    /\ writes = <<>>
    /\ unit = NoUnit
    /\ mgr = NoManager

\* main(), choice "1" or an invalid choice: gui = FractalGUI()
MainGui ==
    /\ gui.mode = "main"
    /\ configs' = Append(configs, DefaultConfig)
    /\ cfgLog' = Append(cfgLog, [handed |-> 0, consumed |-> 0, mutated |-> FALSE])
    /\ gui' = [mode |-> "gui", config |-> Len(configs) + 1,
               current_generator |-> None, current_image |-> None]
    /\ UNCHANGED <<gens, bufs, calls, thr, writes, unit, mgr>>

\* main(), choice "2": config = FractalConfig();
\* generator = MandelbrotGenerator(config); image_data = generator.generate()
MainCli ==
    /\ gui.mode = "main"
    /\ LET cid == Len(configs) + 1
           g == Len(gens) + 1
           C == Append(configs, DefaultConfig)
           r == GenerateOn(Append(gens, NewGen("Mandelbrot", cid, 0)), C, bufs, g)
       IN  /\ configs' = C
           /\ gens' = r.gens
           /\ bufs' = r.bufs
           /\ calls' = Append(calls, r.entry)
           /\ cfgLog' = Append(cfgLog, [handed |-> 1, consumed |-> 1, mutated |-> FALSE])
    /\ gui' = [gui EXCEPT !.mode = "cli"]
    /\ UNCHANGED <<thr, writes, unit, mgr>>

\* The fields of self.config after generate_fractal's assignments: the three
\* widget values, and julia_c when the type is Julia and both entries parse.
GuiFields(cfg, type, n, zoom, scheme, julia) ==
    LET c1 == [cfg EXCEPT !.max_iterations = n, !.zoom = zoom,
                          !.color_scheme = scheme]
    IN  IF type = "Julia" /\ julia # BadFloat
        THEN [c1 EXCEPT !.julia_c = julia.value]
        ELSE c1

\* generate_fractal from the choice of the generator on, the config heap being
\* C with log L and the handler's config cid: a Julia entry that does not parse
\* returns; a known type constructs a generator over the config, any other
\* text keeps current_generator; generate() is called on current_generator (an
\* AttributeError when it is None, caught like every exception) and the image
\* it returns is displayed.
GuiHandler(cid, C, L, type, julia) ==
    LET new == GuiClass(type) # "none"
        G1 == IF new THEN Append(gens, NewGen(GuiClass(type), cid, GuiDepth(type)))
              ELSE gens
        g == IF new THEN Len(gens) + 1 ELSE gui.current_generator
    IN  IF (type = "Julia" /\ julia = BadFloat) \/ g = None
        THEN /\ configs' = C
             /\ cfgLog' = L
             /\ UNCHANGED <<gens, bufs, calls, gui>>
        ELSE LET r == GenerateOn(G1, C, bufs, g)
                 L1 == IF new THEN [L EXCEPT ![cid].handed = @ + 1] ELSE L
             IN  /\ configs' = C
                 /\ cfgLog' = [L1 EXCEPT ![G1[g].config].consumed = @ + 1]
                 /\ gens' = r.gens
                 /\ bufs' = r.bufs
                 /\ calls' = Append(calls, r.entry)
                 /\ gui' = [gui EXCEPT !.current_generator = g,
                                       !.current_image =
                                           IF r.entry.raised THEN @ ELSE r.entry.buf]

\* A generate_fractal that builds a new FractalConfig for every call instead
\* of assigning to self.config.
GuiGenerateFresh(type, n, zoom, scheme, julia) ==
    /\ gui.mode = "gui"
    /\ Len(calls) < MaxCalls
    /\ GuiHandler(Len(configs) + 1,
                  Append(configs, GuiFields(DefaultConfig, type, n, zoom, scheme, julia)),
                  Append(cfgLog, [handed |-> 0, consumed |-> 0, mutated |-> FALSE]),
                  type, julia)
    /\ UNCHANGED <<thr, writes, unit, mgr>>

\* FractalGUI.generate_fractal, the handler of the Generate button.
GuiGenerateFractal(type, n, zoom, scheme, julia) ==
    /\ gui.mode = "gui"
    /\ Len(calls) < MaxCalls
    /\ GuiHandler(gui.config,
                  [configs EXCEPT ![gui.config] =
                      GuiFields(configs[gui.config], type, n, zoom, scheme, julia)],
                  [cfgLog EXCEPT ![gui.config].mutated = TRUE],
                  type, julia)
    /\ UNCHANGED <<thr, writes, unit, mgr>>

\* What a configuration file can hold for julia_c; a malformed value raises
\* KeyError, caught, after the other three fields were assigned.
FileJulia == {Absent, BadFloat, JuliaInput("number", <<Fx(0), Fx(0)>>)}

\* FractalGUI.load_config with a file chosen and parsed.
GuiLoadConfig(n, zoom, scheme, julia) ==
    /\ gui.mode = "gui"
    /\ configs' = [configs EXCEPT ![gui.config] =
          LET c1 == [@ EXCEPT !.max_iterations = n, !.zoom = zoom,
                              !.color_scheme = scheme]
          IN  IF julia.kind = "number" THEN [c1 EXCEPT !.julia_c = julia.value]
              ELSE c1]
    /\ cfgLog' = [cfgLog EXCEPT ![gui.config].mutated = TRUE]
    /\ UNCHANGED <<gens, bufs, calls, gui, thr, writes, unit, mgr>>

NextGui ==
    \/ MainGui
    \/ MainCli
    \/ \E type \in GuiTypes, n \in ScaleIterations, zoom \in ScaleZooms,
          scheme \in SchemeTexts, julia \in JuliaEntries :
          GuiGenerateFractal(type, n, zoom, scheme, julia)
    \/ \E n \in {0}, zoom \in {Fx(2)}, scheme \in {"sepia"}, julia \in FileJulia :
          GuiLoadConfig(n, zoom, scheme, julia)

SpecGui == InitGui /\ [][NextGui]_vars

\* C7 as stated: every FractalConfig is handed to at most one generator,
\* consumed by at most one generate() call (exactly one of each once the
\* caller is through with it) and never assigned to after its creation.
C7_OneShotConfigs ==
    \A c \in DOMAIN configs :
        /\ cfgLog[c].handed <= 1
        /\ cfgLog[c].consumed <= 1
        /\ ~cfgLog[c].mutated
        /\ gui.mode = "cli" => cfgLog[c].handed = 1 /\ cfgLog[c].consumed = 1

\* C7 amended: the CLI branch hands its config to exactly one generator, which
\* consumes it in exactly one generate() call, and never assigns to it.
\* FractalGUI holds one config for its whole run: every generator it builds is
\* handed that config, every generate() call consumes it, and every
\* generate() call is preceded by generate_fractal's assignments to it.
C7_ConfigLifecycle ==
    /\ Len(configs) <= 1
    /\ gui.mode = "cli" =>
          /\ Len(configs) = 1 /\ Len(gens) = 1 /\ Len(calls) = 1
          /\ cfgLog[1] = [handed |-> 1, consumed |-> 1, mutated |-> FALSE]
          /\ configs[1] = DefaultConfig
          /\ calls[1].cfg = DefaultConfig
    /\ gui.mode = "gui" =>
          /\ gui.config = 1 /\ Len(configs) = 1
          /\ \A g \in DOMAIN gens : gens[g].config = gui.config
          /\ cfgLog[1].handed = Len(gens)
          /\ cfgLog[1].consumed = Len(calls)
          /\ cfgLog[1].handed <= cfgLog[1].consumed
          /\ Len(calls) > 0 => cfgLog[1].mutated
          /\ \A i \in DOMAIN calls : calls[i].config = gui.config

\* The GUI's one config has been assigned to, handed to two generators and
\* consumed by two generate() calls that read different field values.
C7_Witness ==
    /\ gui.mode = "gui"
    /\ cfgLog[gui.config].mutated
    /\ cfgLog[gui.config].handed = 2
    /\ cfgLog[gui.config].consumed = 2
    /\ Len(calls) = 2
    /\ calls[1].cfg # calls[2].cfg
    /\ calls[1].gen # calls[2].gen

----------------------------------------------------------------------------
(* SpecConc: two threads, each running generate() on its own generator.

   thr[t] is the frame of thread t's generate() call: pc is its position
   ("idle" before the call, "loop" in the while loop of a pixel, "fill" /
   "line" between two depth-0 fills / two _draw_line calls, "store" before
   self.image_data = image, "done" after the return), buf the local `image`,
   x, y, c, z, iterations the locals of the pixel loops, triangles the
   depth-0 calls draw_triangle still has to make (in call order), points the
   local `points`, k the index of the next triangle or line.  updates counts the assignments to z for the
   current pixel, counts keeps the final count of every finished pixel (-1
   before), overlap whether a step of the call was taken while the other
   thread was inside its own call. *)

Threads == {1, 2}

\* The configs the two threads' generators are built over.
ConcConfigs ==
    {DefaultConfig,
     [DefaultConfig EXCEPT !.max_iterations = 1, !.zoom = Fx(2),
                           !.color_scheme = "grayscale", !.escape_radius = Fx(0)]}

IdleFrame(g) ==
    [pc |-> "idle", gen |-> g, buf |-> None, x |-> 0, y |-> 0,
     c |-> <<0, 0>>, z |-> <<0, 0>>, iterations |-> 0, updates |-> 0,
     triangles |-> <<>>, sequence |-> <<>>, points |-> <<>>, k |-> 0,
     counts |-> <<>>, overlap |-> FALSE]

InitConc ==
    /\ \E c1, c2 \in ConcConfigs : configs = <<c1, c2>>
    /\ \E k1, k2 \in Classes : \E d1, d2 \in Depths :
          /\ k1 \in EscapeClasses => d1 = 0
          /\ k2 \in EscapeClasses => d2 = 0
          /\ gens = <<NewGen(k1, 1, d1), NewGen(k2, 2, d2)>>
    /\ cfgLog = <<[handed |-> 1, consumed |-> 0, mutated |-> FALSE],
                  [handed |-> 1, consumed |-> 0, mutated |-> FALSE]>>
    /\ bufs = <<>>
    /\ calls = <<>>
    /\ gui = [mode |-> "api", config |-> None, current_generator |-> None,
              current_image |-> None]
    /\ thr = <<IdleFrame(1), IdleFrame(2)>>
    /\ writes = <<>>
    /\ unit = NoUnit
    /\ mgr = NoManager

\* The config thread t's generator reads.
ThrCfg(t) == configs[gens[thr[t].gen].config]
ThrClass(t) == gens[thr[t].gen].class

\* Whether the other thread is inside generate().
OtherRunning(t) == \E u \in Threads \ {t} : thr[u].pc \notin {"idle", "done"}

\* z and c at the start of pixel (x, y)'s while loop.
PixelStart(class, cfg, x, y) ==
    IF class = "Mandelbrot"
    THEN [z |-> <<0, 0>>, c |-> <<PixelReal(cfg, x), PixelImag(cfg, y)>>]
    ELSE [z |-> <<PixelReal(cfg, x), PixelImag(cfg, y)>>, c |-> cfg.julia_c]

\* The triangles / points the recursive generators compute before drawing.
ThrLeaves(t) ==
    IF ThrClass(t) # "Sierpinski" THEN <<>>
    ELSE LET v == Vertices(ThrCfg(t).width, ThrCfg(t).height)
         IN  Leaves(v[1], v[2], v[3], gens[thr[t].gen].depth)
ThrSequence(t) ==
    IF ThrClass(t) # "Dragon" THEN <<>>
    ELSE DragonSequence(gens[thr[t].gen].depth)
ThrPoints(t) ==
    IF ThrClass(t) # "Dragon" THEN <<>>
    ELSE WalkPoints(ThrCfg(t).width, ThrCfg(t).height, gens[thr[t].gen].depth)

\* Entry of generate(): the image is allocated and, for the escape-time
\* generators, the first pixel's loop is set up.
ThrStart(t) ==
    /\ thr[t].pc = "idle"
    /\ ~GenRaises(ThrClass(t), ThrCfg(t))
    /\ LET cfg == ThrCfg(t)
           id == AllocId(gens, bufs, thr[t].gen)
           escape == ThrClass(t) \in EscapeClasses
           start == PixelStart(ThrClass(t), cfg, 0, 0)
       IN  /\ bufs' = Store(bufs, id, NewImage(cfg.height, cfg.width,
                                               IF escape THEN Black ELSE White))
           /\ thr' = [thr EXCEPT ![t] =
                 [@ EXCEPT !.pc = IF escape THEN "loop"
                                  ELSE IF ThrClass(t) = "Sierpinski" THEN "fill"
                                  ELSE "line",
                           !.buf = id, !.x = 0, !.y = 0,
                           !.z = IF escape THEN start.z ELSE <<0, 0>>,
                           !.c = IF escape THEN start.c ELSE <<0, 0>>,
                           !.iterations = 0, !.updates = 0,
                           !.triangles = ThrLeaves(t), !.sequence = ThrSequence(t),
                           !.points = ThrPoints(t),
                           !.k = 1,
                           !.counts = [p \in Pixels(cfg.height, cfg.width) |-> -1],
                           !.overlap = OtherRunning(t)]]
    /\ UNCHANGED <<configs, gens, calls, cfgLog, gui, writes, unit, mgr>>

\* One pass of the while loop: z = z * z + c; iterations += 1
ThrIterate(t) ==
    /\ thr[t].pc = "loop"
    /\ LoopCond(thr[t].z, thr[t].iterations, ThrCfg(t))
    /\ thr' = [thr EXCEPT ![t] =
          [@ EXCEPT !.z = ZStep(thr[t].z, thr[t].c),
                    !.iterations = @ + 1, !.updates = @ + 1,
                    !.overlap = @ \/ OtherRunning(t)]]
    /\ UNCHANGED <<configs, gens, bufs, calls, cfgLog, gui, writes, unit, mgr>>

\* Exit of the while loop: the pixel is coloured and the for loops advance
\* (x inner, y outer) to the next pixel, or leave.
ThrPixel(t) ==
    /\ thr[t].pc = "loop"
    /\ ~LoopCond(thr[t].z, thr[t].iterations, ThrCfg(t))
    /\ LET cfg == ThrCfg(t)
           f == thr[t]
           nx == IF f.x + 1 < cfg.width THEN f.x + 1 ELSE 0
           ny == IF f.x + 1 < cfg.width THEN f.y ELSE f.y + 1
           start == PixelStart(ThrClass(t), cfg, nx, ny)
       IN  /\ bufs' = [bufs EXCEPT ![f.buf].px[<<f.y, f.x>>] =
                          GetColor(cfg.color_scheme, f.iterations, cfg.max_iterations)]
           /\ thr' = [thr EXCEPT ![t] =
                 IF ny < cfg.height
                 THEN [f EXCEPT !.x = nx, !.y = ny, !.z = start.z, !.c = start.c,
                                !.iterations = 0, !.updates = 0,
                                !.counts[<<f.y, f.x>>] = f.iterations,
                                !.overlap = @ \/ OtherRunning(t)]
                 ELSE [f EXCEPT !.pc = "store",
                                !.counts[<<f.y, f.x>>] = f.iterations,
                                !.overlap = @ \/ OtherRunning(t)]]
    /\ UNCHANGED <<configs, gens, calls, cfgLog, gui, writes, unit, mgr>>

\* One depth-0 call of draw_triangle: _fill_triangle on the k-th triangle.
ThrFill(t) ==
    /\ thr[t].pc = "fill"
    /\ LET ts == thr[t].triangles
           f == thr[t]
       IN  /\ bufs' = [bufs EXCEPT ![f.buf] = FillTriangle(@, ts[f.k])]
           /\ thr' = [thr EXCEPT ![t] =
                 [f EXCEPT !.k = @ + 1,
                           !.pc = IF f.k + 1 > Len(ts) THEN "store" ELSE "fill",
                           !.overlap = @ \/ OtherRunning(t)]]
    /\ UNCHANGED <<configs, gens, calls, cfgLog, gui, writes, unit, mgr>>

\* One pass of the line loop: _draw_line from points[k] to points[k + 1].
ThrLine(t) ==
    /\ thr[t].pc = "line"
    /\ LET points == thr[t].points
           f == thr[t]
       IN  /\ bufs' = [bufs EXCEPT ![f.buf] =
                          DrawLine(@, points[f.k][1], points[f.k][2],
                                   points[f.k + 1][1], points[f.k + 1][2], Red)]
           /\ thr' = [thr EXCEPT ![t] =
                 [f EXCEPT !.k = @ + 1,
                           !.pc = IF f.k + 2 > Len(points) THEN "store" ELSE "line",
                           !.overlap = @ \/ OtherRunning(t)]]
    /\ UNCHANGED <<configs, gens, calls, cfgLog, gui, writes, unit, mgr>>

\* self.image_data = image; return image
ThrStore(t) ==
    /\ thr[t].pc = "store"
    /\ gens' = [gens EXCEPT ![thr[t].gen].image_data = thr[t].buf]
    /\ calls' = Append(calls, CallEntry(gens, configs, thr[t].gen, FALSE,
                                        thr[t].buf, bufs[thr[t].buf]))
    /\ cfgLog' = [cfgLog EXCEPT ![gens[thr[t].gen].config].consumed = @ + 1]
    /\ thr' = [thr EXCEPT ![t] = [@ EXCEPT !.pc = "done",
                                           !.overlap = @ \/ OtherRunning(t)]]
    /\ UNCHANGED <<configs, bufs, gui, writes, unit, mgr>>

\* A step of thread t.
ThrStep(t) ==
    \/ ThrStart(t)
    \/ ThrIterate(t)
    \/ ThrPixel(t)
    \/ ThrFill(t)
    \/ ThrLine(t)
    \/ ThrStore(t)

NextConc == \E t \in Threads : ThrStep(t)

SpecConc == InitConc /\ [][NextConc]_vars

----------------------------------------------------------------------------
(* FairSpecEscape: two threads running the escape-time generators, under a
   scheduler that lets every thread that can take a step take one. *)

\* Configs with positive width, height, max_iterations and zoom; the escape
\* radius is positive, zero and negative, the centre on and off the origin.
EscapeConfigs ==
    {DefaultConfig,
     [DefaultConfig EXCEPT !.max_iterations = 1, !.zoom = Fx(2),
                           !.color_scheme = "grayscale", !.escape_radius = Fx(0)],
     [DefaultConfig EXCEPT !.escape_radius = Fx(-1), !.center_x = Fx(3),
                           !.julia_c = <<Fx(0), Fx(0)>>],
     [DefaultConfig EXCEPT !.width = 1, !.zoom = Lit(1, 2), !.center_y = Lit(1, 2)]}

InitEscape ==
    /\ \E c1 \in EscapeConfigs, c2 \in ConcConfigs : configs = <<c1, c2>>
    /\ \E k1, k2 \in EscapeClasses : gens = <<NewGen(k1, 1, 0), NewGen(k2, 2, 0)>>
    /\ cfgLog = <<[handed |-> 1, consumed |-> 0, mutated |-> FALSE],
                  [handed |-> 1, consumed |-> 0, mutated |-> FALSE]>>
    /\ bufs = <<>>
    /\ calls = <<>>
    /\ gui = [mode |-> "api", config |-> None, current_generator |-> None,
              current_image |-> None]
    /\ thr = <<IdleFrame(1), IdleFrame(2)>>
    /\ writes = <<>>
    /\ unit = NoUnit
    /\ mgr = NoManager

\* A step of thread t inside MandelbrotGenerator / JuliaGenerator.generate.
EscapeStep(t) ==
    \/ ThrStart(t)
    \/ ThrIterate(t)
    \/ ThrPixel(t)
    \/ ThrStore(t)

NextEscape == \E t \in Threads : EscapeStep(t)

FairSpecEscape ==
    InitEscape /\ [][NextEscape]_vars /\ \A t \in Threads : WF_vars(EscapeStep(t))

\* The threads running an escape-time generator.
EscapeThreads == {t \in Threads : ThrClass(t) \in EscapeClasses}

\* The updates of z and the count stay within the cap, for the pixel in the
\* loop and for every finished pixel.
LoopBounded ==
    \A t \in EscapeThreads :
        thr[t].pc # "idle" =>
           /\ thr[t].updates = thr[t].iterations
           /\ 0 <= thr[t].iterations
           /\ thr[t].iterations <= ThrCfg(t).max_iterations
           /\ \A p \in DOMAIN thr[t].counts :
                 thr[t].counts[p] \in -1 .. ThrCfg(t).max_iterations
           /\ thr[t].pc \in {"store", "done"} =>
                 \A p \in DOMAIN thr[t].counts : thr[t].counts[p] >= 0

\* C2: the escape loop of every pixel makes at most max_iterations updates of
\* z and leaves a count in 0 .. max_iterations, and a generate() call that
\* was started (positive width, height, max_iterations, zoom; any center,
\* julia_c and escape_radius) returns.
C2_LoopTerminates ==
    /\ []LoopBounded
    /\ \A t \in Threads : (thr[t].pc # "idle") ~> (thr[t].pc = "done")

\* A Mandelbrot or Julia call has returned after one pixel ran the full
\* MaxIter updates and another left its loop earlier, after at least one.
C2_Witness ==
    \E t \in EscapeThreads : \E p, q \in DOMAIN thr[t].counts :
        /\ thr[t].pc = "done"
        /\ ThrCfg(t).max_iterations = MaxIter
        /\ thr[t].counts[p] = MaxIter
        /\ thr[t].counts[q] > 0
        /\ thr[t].counts[q] < MaxIter

\* The history entry of the call thread t returned from.
ThrCall(t) == CHOOSE i \in DOMAIN calls : calls[i].gen = thr[t].gen

\* C8: with the steps of two generate() calls on two generators interleaved in
\* any order, the two calls draw into different buffers, every pixel a call
\* has finished holds the colour the call gives it when run alone, and each
\* call returns exactly the raster it returns when run alone.
C8_Isolation ==
    \A t \in Threads :
        /\ thr[t].buf # None => \A u \in Threads \ {t} : thr[u].buf # thr[t].buf
        /\ (thr[t].pc # "idle" /\ t \in EscapeThreads) =>
              \A p \in DOMAIN thr[t].counts :
                 thr[t].counts[p] >= 0 =>
                    bufs[thr[t].buf].px[p]
                       = Render(ThrClass(t), ThrCfg(t), gens[thr[t].gen].depth).px[p]
        /\ thr[t].pc = "done" =>
              /\ \E i \in DOMAIN calls : calls[i].gen = thr[t].gen
              /\ calls[ThrCall(t)].buf = thr[t].buf
              /\ calls[ThrCall(t)].out
                    = Render(ThrClass(t), ThrCfg(t), gens[thr[t].gen].depth)
              /\ bufs[thr[t].buf] = calls[ThrCall(t)].out
              /\ gens[thr[t].gen].image_data = thr[t].buf

\* Both calls have returned, each took steps while the other was inside
\* generate(), and the two rasters differ.
C8_Witness ==
    /\ \A t \in Threads : thr[t].pc = "done" /\ thr[t].overlap
    /\ ThrClass(1) # ThrClass(2)
    /\ configs[1] # configs[2]
    /\ bufs[thr[1].buf] # bufs[thr[2].buf]

----------------------------------------------------------------------------
(* Claims about the recursive generators, checked under SpecConc *)

\* The threads of class `class` that are past the entry of generate().
Started(class) ==
    {t \in Threads : ThrClass(t) = class /\ thr[t].pc \in {"fill", "line", "store", "done"}}

\* ts is the fill order of a call tree of height depth over triangle tri in
\* which every internal call recurses into the three corner sub-triangles
\* (p1, mid1, mid3), (mid1, p2, mid2), (mid3, mid2, p3), and into nothing else.
RECURSIVE CornerSplit(_, _, _)
CornerSplit(ts, tri, depth) ==
    IF depth = 0 THEN ts = <<tri>>
    ELSE LET n == Pow3(depth - 1)
             mid1 == Mid(tri[1], tri[2])
             mid2 == Mid(tri[2], tri[3])
             mid3 == Mid(tri[3], tri[1])
         IN  /\ Len(ts) = 3 * n
             /\ CornerSplit(SubSeq(ts, 1, n), <<tri[1], mid1, mid3>>, depth - 1)
             /\ CornerSplit(SubSeq(ts, n + 1, 2 * n), <<mid1, tri[2], mid2>>, depth - 1)
             /\ CornerSplit(SubSeq(ts, 2 * n + 1, 3 * n), <<mid3, mid2, tri[3]>>, depth - 1)

\* C15: a Sierpinski generate() at depth d makes exactly 3^d depth-0 fills;
\* every internal call recurses into the three corner sub-triangles and never
\* into the central one, whose own pixels stay white.
C15_SierpinskiFills ==
    \A t \in Started("Sierpinski") :
        LET d == gens[thr[t].gen].depth
            tri == Vertices(ThrCfg(t).width, ThrCfg(t).height)
        IN  /\ Len(thr[t].triangles) = Pow3(d)
            /\ thr[t].k - 1 <= Pow3(d)
            /\ thr[t].pc \in {"store", "done"} => thr[t].k - 1 = Pow3(d)
            /\ CornerSplit(thr[t].triangles, tri, d)
            /\ d >= 1 => \A p \in DOMAIN bufs[thr[t].buf].px :
                             CentralOnly(p[2], p[1], tri)
                                => bufs[thr[t].buf].px[p] = White

\* A Sierpinski generate() at depth MaxDepth has made all its 3^MaxDepth
\* fills, and a pixel of the central sub-triangle is white next to a black one.
C15_Witness ==
    \E t \in Started("Sierpinski") : \E p, q \in DOMAIN bufs[thr[t].buf].px :
        /\ gens[thr[t].gen].depth = MaxDepth
        /\ thr[t].pc = "done"
        /\ thr[t].k - 1 = Pow3(MaxDepth)
        /\ CentralOnly(p[2], p[1], Vertices(ThrCfg(t).width, ThrCfg(t).height))
        /\ bufs[thr[t].buf].px[p] = White
        /\ bufs[thr[t].buf].px[q] = Black

\* C17: _generate_dragon_sequence(n) returns a sequence of length
\* 2^(n+1) - 1 for every n >= 0: length 1 for n = 0, and every round maps
\* length L to 2L + 1.
C17_SequenceLength ==
    \A t \in Started("Dragon") :
        /\ thr[t].sequence = DragonSequence(gens[thr[t].gen].depth)
        /\ Len(thr[t].sequence) = Pow2(gens[thr[t].gen].depth + 1) - 1
        /\ \A n \in 0 .. gens[thr[t].gen].depth + 1 :
              /\ n = 0 => Len(DragonSequence(n)) = 1
              /\ n >= 1 => Len(DragonSequence(n)) = 2 * Len(DragonSequence(n - 1)) + 1
              /\ Len(DragonSequence(n)) = Pow2(n + 1) - 1

\* A Dragon generate() at depth MaxDepth holds its sequence, longer than the
\* start sequence and of length 2^(MaxDepth+1) - 1.
C17_Witness ==
    \E t \in Started("Dragon") :
        /\ gens[thr[t].gen].depth = MaxDepth
        /\ Len(thr[t].sequence) > 1
        /\ Len(thr[t].sequence) = Pow2(MaxDepth + 1) - 1

\* C18 as stated: Dragon generation with curve_iterations = n produces a turn
\* sequence of length 2^n - 1.
C18_TwoPowNMinusOne ==
    \A t \in Started("Dragon") :
        Len(thr[t].sequence) = Pow2(gens[thr[t].gen].depth) - 1

\* C18: Dragon generation with curve_iterations = n produces a turn sequence
\* of length 2^(n+1) - 1; the walk records 2^(n+1) points, the start and one
\* for every turn, and generate() draws 2^(n+1) - 1 line segments.
C18_GenerateLengths ==
    \A t \in Started("Dragon") :
        LET n == gens[thr[t].gen].depth
        IN  /\ Len(thr[t].sequence) = 2 * Pow2(n) - 1
            /\ Len(thr[t].points) = Len(thr[t].sequence) + 1
            /\ Len(thr[t].points) = 2 * Pow2(n)
            /\ thr[t].k - 1 <= 2 * Pow2(n) - 1
            /\ thr[t].pc \in {"store", "done"} => thr[t].k - 1 = 2 * Pow2(n) - 1

\* A Dragon generate() at depth MaxDepth has drawn all its 2^(MaxDepth+1) - 1
\* segments and returned.
C18_Witness ==
    \E t \in Started("Dragon") :
        /\ gens[thr[t].gen].depth = MaxDepth
        /\ thr[t].pc = "done"
        /\ thr[t].k - 1 = 2 * Pow2(MaxDepth) - 1
        /\ Len(thr[t].points) = thr[t].k

\* The net number of left turns made before the j-th step of the walk.
NetLeft(sequence, j) ==
    Cardinality({i \in 1 .. j - 1 : sequence[i] = "L"})
      - Cardinality({i \in 1 .. j - 1 : sequence[i] = "R"})

\* C19 as stated: the step length generate() chooses keeps the whole walk
\* inside the canvas: every cursor position is the previous one advanced by
\* the step, and the clamping changes none.
C19_NoClamping ==
    \A t \in Started("Dragon") :
        LET cfg == ThrCfg(t)
            step == StepSize(cfg.width, cfg.height, gens[thr[t].gen].depth)
        IN  \A j \in 1 .. Len(thr[t].points) - 1 :
               LET d == Heading(NetLeft(thr[t].sequence, j))
               IN  thr[t].points[j + 1]
                     = <<thr[t].points[j][1] + step * d[1],
                         thr[t].points[j][2] + step * d[2]>>

----------------------------------------------------------------------------
(* The escape test, checked under SpecSweep *)

\* z after j updates z = z * z + c.
RECURSIVE Orbit(_, _, _)
Orbit(z, c, j) == IF j <= 0 THEN z ELSE Orbit(ZStep(z, c), c, j - 1)

\* |z| > r, |z| = r
Escaped(z, r) == r < 0 \/ z[1] * z[1] + z[2] * z[2] > r * r
OnRadius(z, r) == r >= 0 /\ z[1] * z[1] + z[2] * z[2] = r * r

\* z_k of pixel p of call i: the k-th value of the sequence its loop tests.
OrbitOf(i, p, k) ==
    LET start == PixelStart(calls[i].class, calls[i].cfg, p[2], p[1])
    IN  Orbit(start.z, start.c, k)

\* From z = z_k on: none of z_k .. z_(n-1) has escaped, and z_n has unless n
\* is the cap.
RECURSIVE FirstEscapeAt(_, _, _, _, _, _)
FirstEscapeAt(z, c, k, n, cap, r) ==
    IF k >= n THEN (n < cap => Escaped(z, r))
    ELSE ~Escaped(z, r) /\ FirstEscapeAt(ZStep(z, c), c, k + 1, n, cap, r)

\* C20: the escape test is strict.  The loop goes on while |z| <= escape_radius,
\* so a value on the radius has not escaped; the count is the smallest k with
\* |z_k| > escape_radius, or max_iterations when no k below it has one.  The
\* Mandelbrot pixel c = 2 with escape_radius 2 and max_iterations >= 2 has
\* count 2.
C20_StrictEscape ==
    \A i \in EscapeReturned :
        PositiveConfig(calls[i].cfg)
        => \A p \in DOMAIN calls[i].counts :
              LET n == calls[i].counts[p]
                  r == calls[i].cfg.escape_radius
              IN  /\ n \in 0 .. calls[i].cfg.max_iterations
                  /\ LET start == PixelStart(calls[i].class, calls[i].cfg, p[2], p[1])
                     IN  FirstEscapeAt(start.z, start.c, 0, n,
                                       calls[i].cfg.max_iterations, r)
                  /\ (/\ calls[i].class = "Mandelbrot"
                      /\ PixelC(calls[i].cfg, p) = <<Fx(2), Fx(0)>>
                      /\ r = Fx(2)
                      /\ calls[i].cfg.max_iterations >= 2) => n = 2

\* The Mandelbrot pixel c = 2 under escape_radius 2: z_1 = 2 lies on the
\* radius, the loop goes on, and z_2 = 6 ends it with count 2.
C20_Witness ==
    \E i \in EscapeReturned : \E p \in DOMAIN calls[i].counts :
        /\ calls[i].class = "Mandelbrot"
        /\ calls[i].cfg.escape_radius = Fx(2)
        /\ calls[i].cfg.max_iterations = MaxIter
        /\ PixelC(calls[i].cfg, p) = <<Fx(2), Fx(0)>>
        /\ OnRadius(OrbitOf(i, p, 1), Fx(2))
        /\ OrbitOf(i, p, 2) = <<Fx(6), Fx(0)>>
        /\ calls[i].counts[p] = 2

\* The escape-time calls that returned for a positive configuration.
MappedReturned == {i \in EscapeReturned : PositiveConfig(calls[i].cfg)}

CountedFrom(class) ==
    {i \in EscapeReturned : /\ calls[i].class = class
                            /\ calls[i].cfg.max_iterations >= 1
                            /\ calls[i].cfg.escape_radius >= 0}

\* C28 as stated: with max_iterations >= 1 and escape_radius >= 0 every
\* Mandelbrot pixel has count >= 1, so the color of iterations = 0 never
\* appears in a Mandelbrot raster; a Julia pixel has count 0 exactly when its
\* mapped coordinate has magnitude > escape_radius.
C28_ZeroColorAbsent ==
    /\ \A i \in CountedFrom("Mandelbrot") : \A p \in DOMAIN calls[i].counts :
          /\ calls[i].counts[p] >= 1
          /\ calls[i].out.px[p] # ZeroColor(calls[i].cfg.color_scheme)
    /\ \A i \in CountedFrom("Julia") : \A p \in DOMAIN calls[i].counts :
          calls[i].counts[p] = 0
             <=> Escaped(PixelC(calls[i].cfg, p), calls[i].cfg.escape_radius)

\* C28, amended: with max_iterations >= 1 and escape_radius >= 0 every
\* Mandelbrot pixel has count >= 1, so no Mandelbrot pixel gets its color from
\* get_color(0, max_iterations); a Julia pixel has count 0 exactly when its
\* mapped coordinate has magnitude > escape_radius.
C28_FirstUpdateHappens ==
    /\ \A i \in CountedFrom("Mandelbrot") : \A p \in DOMAIN calls[i].counts :
          /\ calls[i].counts[p] >= 1
          /\ calls[i].out.px[p]
               = GetColor(calls[i].cfg.color_scheme, calls[i].counts[p],
                          calls[i].cfg.max_iterations)
    /\ \A i \in CountedFrom("Julia") : \A p \in DOMAIN calls[i].counts :
          calls[i].counts[p] = 0
             <=> Escaped(PixelC(calls[i].cfg, p), calls[i].cfg.escape_radius)

\* A Mandelbrot raster under max_iterations >= 2 with a pixel whose c lies
\* outside the escape radius: the loop still made its first update (count 1);
\* and a pixel that ran to the cap, black like the color of iterations = 0
\* under every scheme but rainbow.
C28_Witness ==
    \E i \in CountedFrom("Mandelbrot") : \E p, q \in DOMAIN calls[i].counts :
        /\ calls[i].cfg.max_iterations >= 2
        /\ calls[i].cfg.color_scheme = "grayscale"
        /\ Escaped(PixelC(calls[i].cfg, p), calls[i].cfg.escape_radius)
        /\ calls[i].counts[p] = 1
        /\ calls[i].counts[q] = calls[i].cfg.max_iterations
        /\ calls[i].out.px[q] = ZeroColor("grayscale")

----------------------------------------------------------------------------
(* SpecUnit: one call of a helper function.

   The arguments are drawn once; the action of the function under call
   applies it and records what it returns. *)

\* The lattice points handed to the helpers as vertices and endpoints.
Lattice == (0 .. MaxCoord) \X (0 .. MaxCoord)

\* A call of function fn with arguments args, not yet made.
UnitCall(fn, args) == [fn |-> fn, pc |-> "call", args |-> args, out |-> None]

\* _point_in_triangle(x, y, p1, p2, p3) on every triple of lattice points and
\* every point of the lattice and of the ring around it.
TriangleCalls ==
    {UnitCall("_point_in_triangle", <<x, y, p1, p2, p3>>) :
        x \in -1 .. MaxCoord + 1, y \in -1 .. MaxCoord + 1,
        p1 \in Lattice, p2 \in Lattice, p3 \in Lattice}

\* _draw_line(image, x1, y1, x2, y2, color) on a white image that holds the
\* lattice, for every pair of endpoints; args is <<x1, y1, x2, y2>>.
LineCalls ==
    {UnitCall("_draw_line", <<a[1], a[2], b[1], b[2]>>) : a \in Lattice, b \in Lattice}

\* _generate_dragon_sequence(iterations)
SequenceCalls ==
    {UnitCall("_generate_dragon_sequence", <<n>>) : n \in 0 .. MaxRounds}

UnitCalls == TriangleCalls \cup LineCalls \cup SequenceCalls

InitUnit ==
    /\ configs = <<>>
    /\ gens = <<>>
    /\ bufs = <<>>
    /\ calls = <<>>
    /\ cfgLog = <<>>
    /\ gui = [mode |-> "api", config |-> None, current_generator |-> None,
              current_image |-> None]
    /\ thr = <<>>
    /\ writes = <<>>
    /\ unit \in UnitCalls
    /\ mgr = NoManager

\* The call returns `out`.
UnitReturn(out) ==
    /\ unit.pc = "call"
    /\ unit' = [unit EXCEPT !.pc = "returned", !.out = out]
    /\ UNCHANGED <<configs, gens, bufs, calls, cfgLog, gui, thr, writes, mgr>>

UnitPointInTriangle ==
    /\ unit.fn = "_point_in_triangle"
    /\ UnitReturn(PointInTriangle(unit.args[1], unit.args[2], unit.args[3],
                                  unit.args[4], unit.args[5]))

\* The image is returned in place of None: the caller's array after the call.
UnitDrawLine ==
    /\ unit.fn = "_draw_line"
    /\ UnitReturn(DrawLine(NewImage(MaxCoord + 1, MaxCoord + 1, White),
                           unit.args[1], unit.args[2], unit.args[3], unit.args[4],
                           Red))

UnitDragonSequence ==
    /\ unit.fn = "_generate_dragon_sequence"
    /\ UnitReturn(DragonSequence(unit.args[1]))

NextUnit ==
    \/ UnitPointInTriangle
    \/ UnitDrawLine
    \/ UnitDragonSequence

SpecUnit == InitUnit /\ [][NextUnit]_vars

\* The call of fn has returned.
UnitReturned(fn) == unit.fn = fn /\ unit.pc = "returned"

\* p lies in the closed triangle (a, b, c): the three triangles it spans with
\* the edges tile (a, b, c).
InClosedTriangle(p, a, b, c) ==
    Area2(p, a, b) + Area2(p, b, c) + Area2(p, c, a) = Area2(a, b, c)

\* p lies on the closed segment from a to b.
OnSegment(p, a, b) ==
    /\ Area2(p, a, b) = 0
    /\ Min(a[1], b[1]) <= p[1] /\ p[1] <= Max(a[1], b[1])
    /\ Min(a[2], b[2]) <= p[2] /\ p[2] <= Max(a[2], b[2])

\* C21: for a non-degenerate triangle with integer vertices, in either
\* orientation and any vertex order, _point_in_triangle returns true exactly
\* when the integer point lies in the closed triangle; it returns true for the
\* vertices and for every lattice point on an edge.
C21_ClosedTriangle ==
    UnitReturned("_point_in_triangle")
    => LET p == <<unit.args[1], unit.args[2]>>
           a == unit.args[3]
           b == unit.args[4]
           c == unit.args[5]
       IN  Area2(a, b, c) > 0
           => /\ unit.out = InClosedTriangle(p, a, b, c)
              /\ p \in {a, b, c} => unit.out = TRUE
              /\ (OnSegment(p, a, b) \/ OnSegment(p, b, c) \/ OnSegment(p, c, a))
                    => unit.out = TRUE

\* A clockwise triangle and an edge point that is not a vertex, found inside;
\* the same test on a point outside returns false in another behaviour.
C21_Witness ==
    /\ UnitReturned("_point_in_triangle")
    /\ LET p == <<unit.args[1], unit.args[2]>>
           a == unit.args[3]
           b == unit.args[4]
           c == unit.args[5]
       IN  /\ Sign(a, b, c) < 0
           /\ p \notin {a, b, c}
           /\ OnSegment(p, a, b)
           /\ unit.out = TRUE

\* C23 as stated: for endpoints inside the canvas the pixels _draw_line paints
\* form a straight segment that includes both (x1, y1) and (x2, y2): every
\* painted pixel is within one pixel of the line through the endpoints.
C23_ConnectsEndpoints ==
    UnitReturned("_draw_line")
    => LET a == <<unit.args[1], unit.args[2]>>
           b == <<unit.args[3], unit.args[4]>>
       IN  /\ unit.out.px[<<a[2], a[1]>>] = Red
           /\ unit.out.px[<<b[2], b[1]>>] = Red
           /\ \A p \in DOMAIN unit.out.px :
                 unit.out.px[p] = Red
                 => Area2(<<p[2], p[1]>>, a, b)
                      <= Max(Abs(b[1] - a[1]), Abs(b[2] - a[2]))

\* The odd part of k >= 1: k with its factors of 2 removed.
RECURSIVE OddPart(_)
OddPart(k) == IF k % 2 = 0 THEN OddPart(k \div 2) ELSE k

\* C26: the dragon sequence for n rounds holds only "R" and "L", is a prefix
\* of the sequence for n + 1 rounds, has "R" as its middle symbol, and is the
\* regular paper-folding sequence: its k-th symbol is "R" exactly when the odd
\* part of k is congruent to 1 modulo 4.
C26_PaperFolding ==
    UnitReturned("_generate_dragon_sequence")
    => LET seq == unit.out
           n == unit.args[1]
       IN  /\ \A k \in DOMAIN seq : seq[k] \in {"R", "L"}
           /\ seq = SubSeq(DragonSequence(n + 1), 1, Len(seq))
           /\ Len(seq) % 2 = 1
           /\ seq[(Len(seq) + 1) \div 2] = "R"
           /\ \A k \in DOMAIN seq : (seq[k] = "R") <=> (OddPart(k) % 4 = 1)

\* The sequence for MaxRounds rounds has come back; it holds both turns, an
\* "L" at position 3 and an "R" at position 5.
C26_Witness ==
    /\ UnitReturned("_generate_dragon_sequence")
    /\ unit.args[1] = MaxRounds
    /\ Len(unit.out) >= 7
    /\ unit.out[3] = "L"
    /\ unit.out[5] = "R"

----------------------------------------------------------------------------
(* SpecRecent: the recent-files list of a ConfigManager.
   A path is a pair <<directory, file name>>; save_data() writes into the
   manager's data directory, add_recent_file() takes any path.  The list is
   self.config.recent_files; save_config() writes it to disk and does not
   change it (a failure to write is caught and printed). *)

\* The length add_recent_file cuts the list to.
RecentLimit == 10

Dirs == {"data", "elsewhere"}
Paths == Dirs \X (1 .. MaxNames)

\* str(self.data_dir / filename)
DataPath(filename) == <<"data", filename>>

\* The k-th path of a fixed enumeration of Paths.
PathOf(k) == <<IF k % 2 = 1 THEN "data" ELSE "elsewhere", (k + 1) \div 2>>

\* The lists load_config() may have read: no duplicates, at most RecentLimit
\* entries.
StartLists ==
    {[i \in 1 .. k |-> PathOf(i)] : k \in 0 .. RecentLimit}
        \cup {[i \in 1 .. k |-> PathOf(k + 1 - i)] : k \in 2 .. RecentLimit}

\* list.remove(x): the list without the first occurrence of x.
RECURSIVE Remove(_, _)
Remove(list, x) ==
    IF list = <<>> THEN <<>>
    ELSE IF Head(list) = x THEN Tail(list)
    ELSE <<Head(list)>> \o Remove(Tail(list), x)

\* x in list
In(x, list) == \E i \in DOMAIN list : list[i] = x

\* list[:n]
Prefix(list, n) == SubSeq(list, 1, Min(Len(list), n))

\* add_recent_file without the removal of the path already listed.
RecentFilesKeepingOld(recent_files, filepath) ==
    Prefix(<<filepath>> \o recent_files, RecentLimit)

\* self.config.recent_files after add_recent_file(filepath).
RecentFilesAfterAdd(recent_files, filepath) ==
    LET removed == IF In(filepath, recent_files)
                   THEN Remove(recent_files, filepath) ELSE recent_files
    IN  Prefix(<<filepath>> \o removed, RecentLimit)

InitRecent ==
    /\ configs = <<>>
    /\ gens = <<>>
    /\ bufs = <<>>
    /\ calls = <<>>
    /\ cfgLog = <<>>
    /\ gui = [mode |-> "api", config |-> None, current_generator |-> None,
              current_image |-> None]
    /\ thr = <<>>
    /\ writes = <<>>
    /\ unit = NoUnit
    /\ \E l \in StartLists : mgr = [recent_files |-> l, calls |-> <<>>]

\* config_manager.add_recent_file(filepath)
AddRecentFile(filepath) ==
    /\ Len(mgr.calls) < MaxAdds
    /\ mgr' = [recent_files |-> RecentFilesAfterAdd(mgr.recent_files, filepath),
                calls |-> Append(mgr.calls, [fn |-> "add_recent_file",
                                             path |-> filepath, added |-> TRUE])]
    /\ UNCHANGED <<configs, gens, bufs, calls, cfgLog, gui, thr, writes, unit>>

\* config_manager.save_data(data, filename, format): written is whether the
\* file was written (no exception before line 163).
SaveData(filename, written) ==
    /\ Len(mgr.calls) < MaxAdds
    /\ mgr' = [recent_files |-> IF written
                                 THEN RecentFilesAfterAdd(mgr.recent_files,
                                                          DataPath(filename))
                                 ELSE mgr.recent_files,
                calls |-> Append(mgr.calls, [fn |-> "save_data",
                                             path |-> DataPath(filename),
                                             added |-> written])]
    /\ UNCHANGED <<configs, gens, bufs, calls, cfgLog, gui, thr, writes, unit>>

NextRecent ==
    \/ \E filepath \in Paths : AddRecentFile(filepath)
    \/ \E filename \in 1 .. MaxNames, written \in BOOLEAN : SaveData(filename, written)

SpecRecent == InitRecent /\ [][NextRecent]_vars

----------------------------------------------------------------------------
(* The recent-files list, checked under SpecRecent *)

\* The place of path x in a list that holds it.
IndexOf(x, list) == CHOOSE i \in DOMAIN list : list[i] = x

NoDuplicates(list) == \A i, j \in DOMAIN list : list[i] = list[j] => i = j

\* C30: from a list with no duplicates and at most 10 entries, after every
\* add_recent_file call (made directly or by a save_data that wrote its file)
\* the list has at most 10 entries, has no duplicates, has the path just added
\* at index 0, and keeps the other remaining paths in the order they had.
C30_RecentFiles ==
    [][LET before == mgr.recent_files
           after == mgr'.recent_files
           call == mgr'.calls[Len(mgr'.calls)]
       IN  IF call.added
           THEN /\ Len(after) <= RecentLimit
                /\ NoDuplicates(after)
                /\ after[1] = call.path
                /\ \A i, j \in 2 .. Len(after) :
                      /\ In(after[i], before)
                      /\ i < j => IndexOf(after[i], before) < IndexOf(after[j], before)
           ELSE after = before]_vars

\* A full list to which a listed path was added again and then a new one:
\* the first moved to the front, the second pushed the last entry out.
C30_Witness ==
    /\ Len(mgr.calls) = 2
    /\ mgr.calls[1].added /\ mgr.calls[2].added
    /\ mgr.calls[1].path # mgr.calls[2].path
    /\ Len(mgr.recent_files) = RecentLimit
    /\ mgr.recent_files[1] = mgr.calls[2].path
    /\ mgr.recent_files[2] = mgr.calls[1].path
    /\ mgr.calls[1].path \in {PathOf(i) : i \in 2 .. RecentLimit}
    /\ mgr.calls[2].path \notin {PathOf(i) : i \in 1 .. RecentLimit}
    /\ \A i \in 3 .. RecentLimit : mgr.recent_files[i] \in {PathOf(k) : k \in 1 .. RecentLimit}

====
